---------------------------- MODULE Spec2Model ----------------------------
(***************************************************************************)
(* A model of caret_analyze/record/record.py: Record, Records and the      *)
(* three merges (merge, merge_sequencial, merge_sequencial_for_addr_track).*)
(*                                                                         *)
(* A Record is [data, columns, org]: data is the dict _data, columns the   *)
(* set _columns, and org is a history field naming the input rows the      *)
(* object was built from (it is never read by the modelled code).          *)
(* A Records is [data, columns]: the list _data and the set _columns.      *)
(*                                                                         *)
(* op is the method called, pc the position of the caller, inputs the      *)
(* Records the call works on and before what they were when it started,    *)
(* params the other arguments, result the Records returned, hist what the  *)
(* call did on the way, and aliased tells that the _columns of result is   *)
(* the very set object the receiver holds.                                 *)
(***************************************************************************)
EXTENDS Integers, Sequences, FiniteSets, TLC

VARIABLES op, pc, inputs, before, params, result, hist, aliased

vars == <<op, pc, inputs, before, params, result, hist, aliased>>

(***************************************************************************)
(* Bounds of the model.                                                    *)
(***************************************************************************)
MaxLeft == 2
MaxRight == 2
MaxEvents == 5
MaxRows == 2
MaxCalls == 3
MaxFreeRows == 1
MaxFreeEvents == 2

\* Values a user column may hold.
Vals == {1, 2}

\* Python's None, for an optional column name.
None == "None"

\* sys.maxsize, the stamp given to a row without join key or stamp.  It is
\* 2^63 - 1 in the source; TLC's integers are 32 bits wide, and the model
\* only needs it above every stamp of Vals.
MaxSize == 2147483647

\* MergeSideInfo
LEFT == 0
RIGHT == 1

HowValues == {"inner", "left", "right", "outer"}

(***************************************************************************)
(* Helpers on sequences and dicts.                                         *)
(***************************************************************************)
SeqsUpTo(S, n) == UNION {[1..m -> S] : m \in 0..n}

\* every dict with keys among cols and values in vals
DictsOver(cols, vals) == UNION {[S -> vals] : S \in SUBSET cols}

EmptyDict == [c \in {} |-> 0]

\* dict.update(other): the keys of other overwrite
DictUpdate(d, other) ==
    [c \in (DOMAIN d) \cup (DOMAIN other) |->
        IF c \in DOMAIN other THEN other[c] ELSE d[c]]

\* d[key] = value
DictSet(d, key, value) ==
    [c \in (DOMAIN d) \cup {key} |-> IF c = key THEN value ELSE d[c]]

\* del d[c] for every c of cols
DictDel(d, cols) == [c \in (DOMAIN d) \ cols |-> d[c]]

(***************************************************************************)
(* class Record                                                            *)
(***************************************************************************)
\* Record.__init__
Record(init, org) == [data |-> init, columns |-> DOMAIN init, org |-> org]

\* Record.add
RecordAdd(r, key, stamp) ==
    [r EXCEPT !.data = DictSet(r.data, key, stamp),
              !.columns = r.columns \cup {key}]

RecordMergeSelfWins(r, other) ==
    [r EXCEPT !.data = DictUpdate(other.data, r.data),
              !.columns = r.columns \cup other.columns,
              !.org = r.org \cup other.org]

\* Record.merge(other, inplace=True)
RecordMerge(r, other) ==
    [r EXCEPT !.data = DictUpdate(r.data, other.data),
              !.columns = r.columns \cup other.columns,
              !.org = r.org \cup other.org]

\* Record.drop_columns(columns, inplace=True)
RecordDropColumns(r, columns) ==
    [r EXCEPT !.data = DictDel(r.data, columns \cap r.columns),
              !.columns = r.columns \ columns]

(***************************************************************************)
(* class Records                                                           *)
(***************************************************************************)
RowColumns(data) == UNION {data[i].columns : i \in 1..Len(data)}

\* Records.__init__
Records(init) == [data |-> init, columns |-> RowColumns(init)]

\* Records.append
RecordsAppend(rs, other) ==
    [data |-> Append(rs.data, other), columns |-> rs.columns \cup other.columns]

\* Records.concat(other, inplace=False): deep copies of the rows, and the
\* columns of the new Records are those of the rows
RecordsConcat(rs, other) == Records(rs.data \o other.data)

\* the sort key of one row, as Records.sort builds it
SortKey(r, key, sub_key, ascending) ==
    IF ascending
    THEN <<r.data[key], IF sub_key = None THEN 0 ELSE r.data[sub_key]>>
    ELSE <<-r.data[key], IF sub_key = None THEN 0 ELSE -r.data[sub_key]>>

\* Python's order on the key tuples
KeyLE(a, b) == a[1] < b[1] \/ (a[1] = b[1] /\ a[2] <= b[2])

\* x placed after every row of the sorted list t whose key is not greater
InsertSorted(t, x, key, sub_key, ascending) ==
    LET kx == SortKey(x, key, sub_key, ascending)
        n == Cardinality({i \in 1..Len(t) :
                 KeyLE(SortKey(t[i], key, sub_key, ascending), kx)})
    IN SubSeq(t, 1, n) \o <<x>> \o SubSeq(t, n + 1, Len(t))

RECURSIVE SortData(_, _, _, _)
\* list.sort(key=...): a stable sort
SortData(data, key, sub_key, ascending) ==
    IF data = <<>> THEN <<>>
    ELSE InsertSorted(SortData(SubSeq(data, 1, Len(data) - 1), key, sub_key, ascending),
                      data[Len(data)], key, sub_key, ascending)

\* Records.drop_columns(columns, inplace=True)
RecordsDropColumns(rs, columns) ==
    [data |-> [i \in 1..Len(rs.data) |-> RecordDropColumns(rs.data[i], columns)],
     columns |-> rs.columns \ columns]


\* Records.concat(other, inplace=True): the list and the set of the receiver
\* are extended
RecordsConcatInplace(rs, other) ==
    [data |-> rs.data \o other.data, columns |-> rs.columns \cup other.columns]

\* Records.drop_columns(columns, inplace=False): the Records returned
RecordsDropColumnsCopy(rs, columns) ==
    Records([i \in 1..Len(rs.data) |-> RecordDropColumns(rs.data[i], columns)])

\* Python's None where a stamp is expected; no stamp of the model is 0
NoneValue == 0

\* self._data.pop(old_key, None)
DictPop(d, key) == IF key \in DOMAIN d THEN d[key] ELSE NoneValue

\* Record.change_dict_key
RecordChangeDictKey(r, old_key, new_key) ==
    [r EXCEPT !.data = DictSet(DictDel(r.data, {old_key}), new_key, DictPop(r.data, old_key)),
              !.columns = (r.columns \ {old_key}) \cup {new_key}]

RECURSIVE RenameRecord(_, _, _)
\* for key_from, key_to in columns.items(), from the i-th item on; columns
\* is the dict as the list of its items
RenameRecord(record, columns, i) ==
    IF i > Len(columns) THEN record
    ELSE IF columns[i][1] \notin record.columns
         THEN RenameRecord(record, columns, i + 1)
         ELSE RenameRecord(RecordChangeDictKey(record, columns[i][1], columns[i][2]),
                           columns, i + 1)

\* self._columns -= set(columns.keys()); self._columns |= set(columns.values())
RenamedColumns(declared, columns) ==
    (declared \ {columns[i][1] : i \in 1..Len(columns)})
        \cup {columns[i][2] : i \in 1..Len(columns)}

\* Records.rename_columns: the receiver after the call and the Records
\* returned; the declared columns of the receiver are renamed in both modes
RecordsRenameColumns(rs, columns, inplace) ==
    LET data == [i \in 1..Len(rs.data) |-> RenameRecord(rs.data[i], columns, 1)]
    IN [self |-> [data |-> IF inplace THEN data ELSE rs.data,
                  columns |-> RenamedColumns(rs.columns, columns)],
        returned |-> ~inplace,
        result |-> Records(data),
        shares |-> FALSE]

\* f(record), for the predicates the model calls filter_if with: the rows
\* that hold value f.value under column f.column
Accepts(f, record) ==
    f.column \in record.columns /\ record.data[f.column] = f.value

\* Records.filter_if: the rows f accepts under the declared columns of the
\* receiver; without inplace the Records returned holds the very set
RecordsFilterIf(rs, f, inplace) ==
    LET kept == SelectSeq(rs.data, LAMBDA record : Accepts(f, record))
    IN [self |-> IF inplace THEN [data |-> kept, columns |-> rs.columns] ELSE rs,
        returned |-> ~inplace,
        result |-> [data |-> kept, columns |-> rs.columns],
        shares |-> ~inplace]

\* Records.sort
RecordsSort(rs, key, sub_key, inplace, ascending) ==
    LET data == SortData(rs.data, key, sub_key, ascending)
    IN [self |-> IF inplace THEN [rs EXCEPT !.data = data] ELSE rs,
        returned |-> ~inplace,
        result |-> Records(data),
        shares |-> FALSE]

RECURSIVE BindDropWalk(_, _, _, _)
\* for record in self.data, from the i-th row on: a row takes the value of
\* the row before it for every declared column it lacks
BindDropWalk(data, i, oldest_values, columns) ==
    IF i > Len(data) THEN data
    ELSE LET record == data[i]
             lacking == (columns \ record.columns) \cap DOMAIN oldest_values
             filled == [record EXCEPT
                           !.data = DictUpdate(@, [c \in lacking |-> oldest_values[c]]),
                           !.columns = @ \cup lacking]
             values == DictUpdate(oldest_values,
                                  [c \in columns \cap filled.columns |-> filled.data[c]])
         IN BindDropWalk([data EXCEPT ![i] = filled], i + 1, values, columns)

RecordsBindDropAsDelayNoSort(rs, sort_key) ==
    LET desc == SortData(rs.data, sort_key, None, FALSE)
    IN [rs EXCEPT !.data = BindDropWalk(desc, 1, EmptyDict, rs.columns)]

\* Records.bind_drop_as_delay
RecordsBindDropAsDelay(rs, sort_key) ==
    LET desc == SortData(rs.data, sort_key, None, FALSE)
        bound == BindDropWalk(desc, 1, EmptyDict, rs.columns)
    IN [rs EXCEPT !.data = SortData(bound, sort_key, None, TRUE)]

(***************************************************************************)
(* Records.merge                                                           *)
(***************************************************************************)
MergeTemporaryColumnsNoSide ==
    {"merge_stamp", "has_valid_join_key", "found_right_record"}

\* temporay_columns of Records.merge
MergeTemporaryColumns ==
    {"side", "merge_stamp", "has_valid_join_key", "found_right_record"}

\* for left in left_records.data: left.add('side', ...): the rows of the
\* input gain the column, its declared columns do not
AnnotateSide(rs, side) ==
    [rs EXCEPT !.data = [i \in 1..Len(rs.data) |-> RecordAdd(rs.data[i], "side", side)]]

\* has_valid_join_key and merge_stamp of one row of the working list
AnnotateJoinKey(r, join_key) ==
    LET r1 == RecordAdd(r, "has_valid_join_key", join_key \in r.columns)
    IN IF join_key \in r.columns
       THEN RecordAdd(r1, "merge_stamp", r.data[join_key])
       ELSE RecordAdd(r1, "merge_stamp", MaxSize)

MergeLeftAlways(how) == TRUE

MergeLeftOuterOnly(how) == how = "outer"

\* merge_left
MergeLeft(how) == how \in {"left", "outer"}

MergeRightAlways(how) == TRUE

\* merge_right
MergeRight(how) == how \in {"right", "outer"}

\* the state of the walk of Records.merge before its first row
MergeWalkInit ==
    [merged_records |-> Records(<<>>), empty_records |-> <<>>,
     has_left |-> FALSE, left_record_ |-> Record(EmptyDict, {})]

\* the row kept by the outer policy
KeptByHow(record, how) ==
    \/ record.data["side"] = LEFT /\ MergeLeft(how)
    \/ record.data["side"] = RIGHT /\ MergeRight(how)

MergeStepPairOnce(st, record, join_key, how) ==
    IF record.data["has_valid_join_key"] = FALSE
    THEN IF KeptByHow(record, how)
         THEN [st EXCEPT !.merged_records = RecordsAppend(@, record)]
         ELSE st
    ELSE IF record.data["side"] = LEFT
    THEN [st EXCEPT
            !.empty_records =
                IF st.has_left /\ st.left_record_.data["found_right_record"] = FALSE
                THEN Append(@, st.left_record_) ELSE @,
            !.has_left = TRUE,
            !.left_record_ = RecordAdd(record, "found_right_record", FALSE)]
    ELSE IF /\ st.has_left
            /\ record.data[join_key] = st.left_record_.data[join_key]
            /\ st.left_record_.data["found_right_record"] = FALSE
    THEN LET l == RecordAdd(st.left_record_, "found_right_record", TRUE)
         IN [st EXCEPT !.left_record_ = l,
                       !.merged_records = RecordsAppend(@, RecordMerge(record, l))]
    ELSE [st EXCEPT !.empty_records = Append(@, record)]

\* one round of the loop over the sorted working list of Records.merge
MergeStep(st, record, join_key, how) ==
    IF record.data["has_valid_join_key"] = FALSE
    THEN IF KeptByHow(record, how)
         THEN [st EXCEPT !.merged_records = RecordsAppend(@, record)]
         ELSE st
    ELSE IF record.data["side"] = LEFT
    THEN [st EXCEPT
            !.empty_records =
                IF st.has_left /\ st.left_record_.data["found_right_record"] = FALSE
                THEN Append(@, st.left_record_) ELSE @,
            !.has_left = TRUE,
            !.left_record_ = RecordAdd(record, "found_right_record", FALSE)]
    ELSE IF /\ st.has_left
            /\ record.data[join_key] = st.left_record_.data[join_key]
            /\ record.data["has_valid_join_key"]
    THEN LET l == RecordAdd(st.left_record_, "found_right_record", TRUE)
             \* merged_record = deepcopy(record); merged_record.merge(left_record_)
         IN [st EXCEPT !.left_record_ = l,
                       !.merged_records = RecordsAppend(@, RecordMerge(record, l))]
    ELSE [st EXCEPT !.empty_records = Append(@, record)]

RECURSIVE MergeWalk(_, _, _, _, _)
\* for record in records._data
MergeWalk(st, data, i, join_key, how) ==
    IF i > Len(data) THEN st
    ELSE MergeWalk(MergeStep(st, data[i], join_key, how), data, i + 1, join_key, how)

\* the pending left row is flushed after the walk
MergeFlush(st) ==
    IF st.has_left /\ st.left_record_.data["found_right_record"] = FALSE
    THEN Append(st.empty_records, st.left_record_)
    ELSE st.empty_records

RECURSIVE AppendKept(_, _, _, _)
\* for record in empty_records: the rows the outer policy keeps
AppendKept(rs, empty_records, i, how) ==
    IF i > Len(empty_records) THEN rs
    ELSE AppendKept(IF KeptByHow(empty_records[i], how)
                    THEN RecordsAppend(rs, empty_records[i]) ELSE rs,
                    empty_records, i + 1, how)

\* Records.merge(right_records, join_key, how): the Records returned, and
\* the two inputs as the call leaves them
RecordsMerge(left_records, right_records, join_key, how) ==
    LET l1 == AnnotateSide(left_records, LEFT)
        r1 == AnnotateSide(right_records, RIGHT)
        records == RecordsConcat(l1, r1)
        annotated == [i \in 1..Len(records.data) |->
                         AnnotateJoinKey(records.data[i], join_key)]
        sorted == SortData(annotated, "merge_stamp", "side", TRUE)
        st == MergeWalk(MergeWalkInit, sorted, 1, join_key, how)
        merged == AppendKept(st.merged_records, MergeFlush(st), 1, how)
    IN [result |-> RecordsDropColumns(merged, MergeTemporaryColumns),
        left |-> RecordsDropColumns(l1, MergeTemporaryColumns),
        right |-> RecordsDropColumns(r1, MergeTemporaryColumns)]

(***************************************************************************)
(* Records.merge_sequencial                                                *)
(***************************************************************************)
SeqTemporaryColumnsNoSide ==
    {"merge_stamp", "has_merge_stamp", "has_valid_join_key", "sub_record"}

\* temporay_columns of Records.merge_sequencial
SeqTemporaryColumns ==
    {"side", "merge_stamp", "has_merge_stamp", "has_valid_join_key", "sub_record"}

\* sub_record = None; a sub_record that is set is the place of the right
\* row in the sorted working list
NoneRef == 0

\* has_valid_join_key, merge_stamp and has_merge_stamp of one row
AnnotateStamp(r, left_stamp_key, right_stamp_key, join_key) ==
    LET r1 == RecordAdd(r, "has_valid_join_key",
                        join_key = None \/ join_key \in r.columns)
    IN IF r.data["side"] = LEFT /\ left_stamp_key \in r.columns
       THEN RecordAdd(RecordAdd(r1, "merge_stamp", r.data[left_stamp_key]),
                      "has_merge_stamp", TRUE)
       ELSE IF r.data["side"] = RIGHT /\ right_stamp_key \in r.columns
       THEN RecordAdd(RecordAdd(r1, "has_merge_stamp", TRUE),
                      "merge_stamp", r.data[right_stamp_key])
       ELSE RecordAdd(RecordAdd(r1, "merge_stamp", MaxSize),
                      "has_merge_stamp", FALSE)

\* get_join_value(record) is not None
HasJoinValue(record, join_key) == join_key = None \/ join_key \in record.columns

\* get_join_value(record), when it is not None
GetJoinValue(record, join_key) ==
    IF join_key = None THEN 0 ELSE record.data[join_key]

\* the pairing pass before its first row: the working list and
\* left_records_with_empty_sub_record, from join value to the place of a row
BindInit(data) == [data |-> data, pending |-> EmptyDict]

BindStepNoErase(st, i, join_key) ==
    LET record == st.data[i]
    IN IF record.data["side"] = LEFT /\ record.data["has_merge_stamp"]
       THEN LET d1 == [st.data EXCEPT ![i] = RecordAdd(record, "sub_record", NoneRef)]
            IN IF ~HasJoinValue(record, join_key)
               THEN [st EXCEPT !.data = d1]
               ELSE [data |-> d1,
                     pending |-> DictSet(st.pending, GetJoinValue(record, join_key), i)]
       ELSE IF record.data["side"] = RIGHT /\ record.data["has_merge_stamp"]
       THEN IF ~HasJoinValue(record, join_key)
            THEN st
            ELSE LET join_value == GetJoinValue(record, join_key)
                 IN IF join_value \in DOMAIN st.pending
                    THEN [st EXCEPT !.data = [st.data EXCEPT
                              ![st.pending[join_value]] =
                                  [@ EXCEPT !.data = DictSet(@, "sub_record", i)]]]
                    ELSE st
       ELSE st

BindStepKeepFirst(st, i, join_key) ==
    LET record == st.data[i]
    IN IF record.data["side"] = LEFT /\ record.data["has_merge_stamp"]
       THEN LET d1 == [st.data EXCEPT ![i] = RecordAdd(record, "sub_record", NoneRef)]
            IN IF ~HasJoinValue(record, join_key)
               THEN [st EXCEPT !.data = d1]
               ELSE IF GetJoinValue(record, join_key) \in DOMAIN st.pending
               THEN [st EXCEPT !.data = d1]
               ELSE [data |-> d1,
                     pending |-> DictSet(st.pending, GetJoinValue(record, join_key), i)]
       ELSE IF record.data["side"] = RIGHT /\ record.data["has_merge_stamp"]
       THEN IF ~HasJoinValue(record, join_key)
            THEN st
            ELSE LET join_value == GetJoinValue(record, join_key)
                 IN IF join_value \in DOMAIN st.pending
                    THEN [data |-> [st.data EXCEPT
                              ![st.pending[join_value]] =
                                  [@ EXCEPT !.data = DictSet(@, "sub_record", i)]],
                          pending |-> DictDel(st.pending, {join_value})]
                    ELSE st
       ELSE st

\* one round of the pairing pass of Records.merge_sequencial
BindStep(st, i, join_key) ==
    LET record == st.data[i]
    IN IF record.data["side"] = LEFT /\ record.data["has_merge_stamp"]
       THEN LET d1 == [st.data EXCEPT ![i] = RecordAdd(record, "sub_record", NoneRef)]
            IN IF ~HasJoinValue(record, join_key)
               THEN [st EXCEPT !.data = d1]
               ELSE [data |-> d1,
                     pending |-> DictSet(st.pending, GetJoinValue(record, join_key), i)]
       ELSE IF record.data["side"] = RIGHT /\ record.data["has_merge_stamp"]
       THEN IF ~HasJoinValue(record, join_key)
            THEN st
            ELSE LET join_value == GetJoinValue(record, join_key)
                 IN IF join_value \in DOMAIN st.pending
                    THEN [data |-> [st.data EXCEPT
                              ![st.pending[join_value]] =
                                  [@ EXCEPT !.data = DictSet(@, "sub_record", i)]],
                          pending |-> DictDel(st.pending, {join_value})]
                    ELSE st
       ELSE st

RECURSIVE BindWalk(_, _, _)
\* the pairing pass: for record in records._data
BindWalk(st, i, join_key) ==
    IF i > Len(st.data) THEN st
    ELSE BindWalk(BindStep(st, i, join_key), i + 1, join_key)

\* the emission pass before its first row: added holds places of the list
EmitInit == [merged_records |-> Records(<<>>), added |-> {}]

EmitStepForgetsSub(st, data, i, how) ==
    LET current_record == data[i]
        alone == [merged_records |-> RecordsAppend(st.merged_records, current_record),
                  added |-> st.added \cup {i}]
    IN IF i \in st.added
       THEN st
       ELSE IF \/ ~current_record.data["has_merge_stamp"]
               \/ ~current_record.data["has_valid_join_key"]
       THEN IF KeptByHow(current_record, how) THEN alone ELSE st
       ELSE IF current_record.data["side"] = RIGHT
       THEN IF MergeRight(how) THEN alone ELSE st
       ELSE LET sub_record == current_record.data["sub_record"]
            IN IF sub_record = NoneRef \/ sub_record \in st.added
               THEN IF MergeLeft(how) THEN alone ELSE st
               ELSE [merged_records |->
                        RecordsAppend(st.merged_records,
                            RecordMerge(RecordMerge(Record(EmptyDict, {}), current_record),
                                        data[sub_record])),
                     added |-> st.added \cup {i}]

\* one round of the emission pass of Records.merge_sequencial
EmitStep(st, data, i, how) ==
    LET current_record == data[i]
        alone == [merged_records |-> RecordsAppend(st.merged_records, current_record),
                  added |-> st.added \cup {i}]
    IN IF i \in st.added
       THEN st
       ELSE IF \/ ~current_record.data["has_merge_stamp"]
               \/ ~current_record.data["has_valid_join_key"]
       THEN IF KeptByHow(current_record, how) THEN alone ELSE st
       ELSE IF current_record.data["side"] = RIGHT
       THEN IF MergeRight(how) THEN alone ELSE st
       ELSE LET sub_record == current_record.data["sub_record"]
            IN IF sub_record = NoneRef \/ sub_record \in st.added
               THEN IF MergeLeft(how) THEN alone ELSE st
               ELSE [merged_records |->
                        RecordsAppend(st.merged_records,
                            RecordMerge(RecordMerge(Record(EmptyDict, {}), current_record),
                                        data[sub_record])),
                     added |-> st.added \cup {i, sub_record}]

RECURSIVE EmitWalk(_, _, _, _)
\* the emission pass: for i, current_record in enumerate(records._data)
EmitWalk(st, data, i, how) ==
    IF i > Len(data) THEN st
    ELSE EmitWalk(EmitStep(st, data, i, how), data, i + 1, how)

\* Records.merge_sequencial(right_records, left_stamp_key, right_stamp_key,
\* join_key, how): the Records returned, and the inputs as the call leaves them
RecordsMergeSequencial(left_records, right_records, left_stamp_key, right_stamp_key, join_key, how) ==
    LET l1 == AnnotateSide(left_records, LEFT)
        r1 == AnnotateSide(right_records, RIGHT)
        records == RecordsConcat(l1, r1)
        annotated == [i \in 1..Len(records.data) |->
                         AnnotateStamp(records.data[i], left_stamp_key,
                                       right_stamp_key, join_key)]
        sorted == SortData(annotated, "merge_stamp", None, TRUE)
        bound == BindWalk(BindInit(sorted), 1, join_key).data
        merged == EmitWalk(EmitInit, bound, 1, how).merged_records
    IN [result |-> RecordsDropColumns(merged, SeqTemporaryColumns),
        left |-> RecordsDropColumns(l1, SeqTemporaryColumns),
        right |-> RecordsDropColumns(r1, SeqTemporaryColumns)]

(***************************************************************************)
(* Records.merge_sequencial_for_addr_track                                 *)
(*                                                                         *)
(* The value a processing record holds under sink_from_key is a Python set *)
(* object, which several records may share: it is modelled as a reference  *)
(* into heap, the list of the set objects made so far.                     *)
(***************************************************************************)
\* RecordType
SOURCE == 0
COPY == 1
SINK == 2

AddrTemporaryColumnsNoType(sink_from_key) == {"timestamp", sink_from_key}

\* the columns dropped from the result
AddrTemporaryColumns(sink_from_key) == {"type", "timestamp", sink_from_key}

\* record.add('type', ...); record.add('timestamp', record.get(stamp_key))
AnnotateType(rs, type, stamp_key) ==
    [rs EXCEPT !.data = [i \in 1..Len(rs.data) |->
        RecordAdd(RecordAdd(rs.data[i], "type", type),
                  "timestamp", rs.data[i].data[stamp_key])]]

\* the sweep before its first row
SweepInit ==
    [processing_records |-> <<>>, heap |-> <<>>,
     merged_records |-> Records(<<>>), log |-> <<>>]

\* the set a processing record holds under sink_from_key
AliasKeys(st, i, sink_from_key) ==
    st.heap[st.processing_records[i].data[sink_from_key]]

\* the processing list as the claims see it: each record with its set
Aliases(st, sink_from_key) ==
    [i \in 1..Len(st.processing_records) |->
        [org |-> st.processing_records[i].org,
         keys |-> AliasKeys(st, i, sink_from_key)]]

\* the SINK branch: a new singleton set, and the record joins the list
SinkStep(st, record, sink_from_key) ==
    [st EXCEPT
        !.heap = Append(@, {record.data[sink_from_key]}),
        !.processing_records =
            Append(@, [record EXCEPT
                          !.data = DictSet(@, sink_from_key, Len(st.heap) + 1)])]

RECURSIVE MergeProcessingRecordKeys(_, _, _, _)
\* merge_processing_record_keys(processing_record), from the x-th record of
\* the list on; p is the place of processing_record in the list
MergeProcessingRecordKeys(st, p, x, sink_from_key) ==
    IF x > Len(st.processing_records) THEN st
    ELSE LET processing_record_keys == AliasKeys(st, p, sink_from_key)
             coresponding_record_keys == AliasKeys(st, x, sink_from_key)
         IN IF /\ coresponding_record_keys \cap processing_record_keys # {}
               /\ coresponding_record_keys # processing_record_keys
            THEN MergeProcessingRecordKeys(
                    [st EXCEPT
                        !.heap = Append(@, processing_record_keys
                                              \cup coresponding_record_keys),
                        !.processing_records =
                            [i \in 1..Len(st.processing_records) |->
                                IF i \in {p, x}
                                THEN [st.processing_records[i] EXCEPT
                                         !.data = DictSet(@, sink_from_key,
                                                          Len(st.heap) + 1)]
                                ELSE st.processing_records[i]]],
                    p, x + 1, sink_from_key)
            ELSE MergeProcessingRecordKeys(st, p, x + 1, sink_from_key)

\* the places of the processing records whose set holds value
Holders(st, value, sink_from_key) ==
    {i \in 1..Len(st.processing_records) : value \in AliasKeys(st, i, sink_from_key)}

\* the first record of records_need_to_merge, 0 when there is none
CopyTarget(st, record, copy_to_key, sink_from_key) ==
    LET holders == Holders(st, record.data[copy_to_key], sink_from_key)
    IN IF holders = {} THEN 0
       ELSE CHOOSE i \in holders : \A i2 \in holders : i <= i2

\* the COPY branch: the set of the first holder of copy_to_key gains
\* copy_from_key, in place, and the sets that overlap it are merged
CopyStep(st, record, copy_from_key, copy_to_key, sink_from_key) ==
    LET p == CopyTarget(st, record, copy_to_key, sink_from_key)
    IN IF p = 0 THEN st
       ELSE MergeProcessingRecordKeys(
                [st EXCEPT !.heap[st.processing_records[p].data[sink_from_key]] =
                               @ \cup {record.data[copy_from_key]}],
                p, 1, sink_from_key)

SourceMatchesFirstOnly(st, record, source_key, sink_from_key) ==
    LET holders == Holders(st, record.data[source_key], sink_from_key)
    IN {i \in holders : \A i2 \in holders : i <= i2}

\* the places of the processing records the SOURCE row is merged into
SourceMatches(st, record, source_key, sink_from_key) ==
    Holders(st, record.data[source_key], sink_from_key)

\* the rows of list at the places of keep, in order
RECURSIVE SelectPlaces(_, _, _)
SelectPlaces(list, keep, i) ==
    IF i > Len(list) THEN <<>>
    ELSE (IF i \in keep THEN <<list[i]>> ELSE <<>>) \o SelectPlaces(list, keep, i + 1)

RECURSIVE AppendAll(_, _, _)
\* merged_records.append, for every row of rows
AppendAll(rs, rows, i) ==
    IF i > Len(rows) THEN rs
    ELSE AppendAll(RecordsAppend(rs, rows[i]), rows, i + 1)

SourceStepEmitFirst(st, record, source_key, sink_from_key) ==
    LET matched == SourceMatches(st, record, source_key, sink_from_key)
        hit == SelectPlaces(st.processing_records, matched, 1)
        rest == SelectPlaces(st.processing_records,
                             (1..Len(st.processing_records)) \ matched, 1)
    IN [st EXCEPT
           !.processing_records = rest,
           !.merged_records =
               AppendAll(Records([i \in 1..Len(hit) |-> RecordMerge(hit[i], record)]),
                         @.data, 1)]

SourceStepKeepsSinks(st, record, source_key, sink_from_key) ==
    LET matched == SourceMatches(st, record, source_key, sink_from_key)
        hit == SelectPlaces(st.processing_records, matched, 1)
    IN [st EXCEPT
           !.merged_records =
               AppendAll(@, [i \in 1..Len(hit) |-> RecordMerge(hit[i], record)], 1)]

\* the SOURCE branch: every processing record whose set holds source_key
\* leaves the list, takes the columns of the SOURCE row and is emitted
SourceStep(st, record, source_key, sink_from_key) ==
    LET matched == SourceMatches(st, record, source_key, sink_from_key)
        hit == SelectPlaces(st.processing_records, matched, 1)
        rest == SelectPlaces(st.processing_records,
                             (1..Len(st.processing_records)) \ matched, 1)
    IN [st EXCEPT
           !.processing_records = rest,
           !.merged_records =
               AppendAll(@, [i \in 1..Len(hit) |-> RecordMerge(hit[i], record)], 1)]

\* one round of the sweep, and what it did for the history: the row, the
\* processing list before and after it, and the record a COPY extended
SweepStep(st, record, keys) ==
    LET st1 == IF record.data["type"] = SINK
               THEN SinkStep(st, record, keys.sink_from_key)
               ELSE IF record.data["type"] = COPY
               THEN CopyStep(st, record, keys.copy_from_key, keys.copy_to_key,
                             keys.sink_from_key)
               ELSE IF record.data["type"] = SOURCE
               THEN SourceStep(st, record, keys.source_key, keys.sink_from_key)
               ELSE st
        p == IF record.data["type"] = COPY
             THEN CopyTarget(st, record, keys.copy_to_key, keys.sink_from_key)
             ELSE 0
    IN [st1 EXCEPT !.log = Append(@,
           [row |-> record,
            before |-> Aliases(st, keys.sink_from_key),
            after |-> Aliases(st1, keys.sink_from_key),
            extended |-> IF p = 0 THEN {} ELSE st.processing_records[p].org])]

RECURSIVE Sweep(_, _, _, _)
\* for record in records.data
Sweep(st, data, i, keys) ==
    IF i > Len(data) THEN st
    ELSE Sweep(SweepStep(st, data[i], keys), data, i + 1, keys)

\* Records.merge_sequencial_for_addr_track: the Records returned, the three
\* inputs as the call leaves them (it works on deep copies), and the history
RecordsMergeSequencialForAddrTrack(source_records, copy_records, sink_records, keys) ==
    LET s1 == AnnotateType(source_records, SOURCE, keys.source_stamp_key)
        c1 == AnnotateType(copy_records, COPY, keys.copy_stamp_key)
        k1 == AnnotateType(sink_records, SINK, keys.sink_stamp_key)
        records == Records(s1.data \o c1.data \o k1.data)
        sorted == SortData(records.data, "timestamp", None, FALSE)
        st == Sweep(SweepInit, sorted, 1, keys)
    IN [result |-> RecordsDropColumns(st.merged_records,
                                      AddrTemporaryColumns(keys.sink_from_key)),
        source |-> source_records,
        copy |-> copy_records,
        sink |-> sink_records,
        log |-> st.log]

(***************************************************************************)
(* The inputs of the calls.                                                *)
(***************************************************************************)
\* a Records built from a list of dicts; row i is tagged <<tag, i>>
MkRecords(dicts, tag) ==
    Records([i \in 1..Len(dicts) |-> Record(dicts[i], {<<tag, i>>})])

NoResult == Records(<<>>)

\* rows of the inputs of merge: the join key is k (1, 2 or absent), and v is
\* a column both sides may hold, with 1 on the left and 2 on the right
MergeLeftRows ==
    {d \in DictsOver({"k", "v"}, Vals) :
        /\ DOMAIN d # {}
        /\ "v" \in DOMAIN d => d["v"] = 1}

MergeRightRows ==
    {d \in DictsOver({"k", "v"}, Vals) :
        /\ DOMAIN d # {}
        /\ "v" \in DOMAIN d => d["v"] = 2}

InitMerge ==
    /\ op = "merge"
    /\ pc = "call"
    /\ \E l \in SeqsUpTo(MergeLeftRows, MaxLeft), r \in SeqsUpTo(MergeRightRows, MaxRight) :
          inputs = [left |-> MkRecords(l, "L"), right |-> MkRecords(r, "R")]
    /\ before = inputs
    /\ params \in [join_key : {"k"}, how : HowValues]
    /\ result = NoResult
    /\ hist = <<>>
    /\ aliased = FALSE

\* rows of the inputs of merge_sequencial: ls and rs are the stamps and k is
\* the join key; a row may lack its stamp or the join key
SeqLeftRows ==
    {[ls |-> 1, k |-> 1], [ls |-> 2, k |-> 1], [ls |-> 2, k |-> 2],
     [ls |-> 1], [k |-> 1]}

SeqRightRows ==
    {[rs |-> 1, k |-> 1], [rs |-> 2, k |-> 1], [rs |-> 2, k |-> 2],
     [rs |-> 2], [k |-> 1]}

InitSeq ==
    /\ op = "merge_sequencial"
    /\ pc = "call"
    /\ \E l \in SeqsUpTo(SeqLeftRows, MaxLeft), r \in SeqsUpTo(SeqRightRows, MaxRight) :
          inputs = [left |-> MkRecords(l, "L"), right |-> MkRecords(r, "R")]
    /\ before = inputs
    /\ params \in [left_stamp_key : {"ls"}, right_stamp_key : {"rs"},
                   join_key : {None, "k"}, how : HowValues]
    /\ result = NoResult
    /\ hist = <<>>
    /\ aliased = FALSE

\* the events of a trace the inputs of merge_sequencial_for_addr_track are
\* recorded from: a sink reads address key, a copy goes from address key to
\* address to, a source writes address key
AddrEvents ==
    [type : {"sink"}, key : {1, 2}, to : {0}]
        \cup [type : {"copy"}, key : {3}, to : {1, 2}]
        \cup [type : {"source"}, key : {1, 3}, to : {0}]

\* the events of one type with their places in the trace, which are their stamps
EventsOf(trace, type) ==
    SelectSeq([p \in 1..Len(trace) |-> [ev |-> trace[p], stamp |-> p]],
              LAMBDA e : e.ev.type = type)

SourceRows(trace) ==
    LET es == EventsOf(trace, "source")
    IN [i \in 1..Len(es) |-> [sk |-> es[i].ev.key, ss |-> es[i].stamp]]

CopyRows(trace) ==
    LET es == EventsOf(trace, "copy")
    IN [i \in 1..Len(es) |->
           [cf |-> es[i].ev.key, ct |-> es[i].ev.to, cs |-> es[i].stamp]]

SinkRows(trace) ==
    LET es == EventsOf(trace, "sink")
    IN [i \in 1..Len(es) |-> [sf |-> es[i].ev.key, ks |-> es[i].stamp]]

AddrKeys ==
    [source_stamp_key |-> "ss", source_key |-> "sk",
     copy_stamp_key |-> "cs", copy_from_key |-> "cf", copy_to_key |-> "ct",
     sink_stamp_key |-> "ks", sink_from_key |-> "sf"]

InitAddr ==
    /\ op = "merge_sequencial_for_addr_track"
    /\ pc = "call"
    /\ \E trace \in SeqsUpTo(AddrEvents, MaxEvents) :
          inputs = [source |-> MkRecords(SourceRows(trace), "source"),
                    copy |-> MkRecords(CopyRows(trace), "copy"),
                    sink |-> MkRecords(SinkRows(trace), "sink")]
    /\ before = inputs
    /\ params = AddrKeys
    /\ result = NoResult
    /\ hist = <<>>
    /\ aliased = FALSE

\* left_records.merge(right_records, join_key, how)
Merge ==
    /\ pc = "call"
    /\ op = "merge"
    /\ \E out \in {RecordsMerge(inputs.left, inputs.right, params.join_key, params.how)} :
          /\ result' = out.result
          /\ inputs' = [left |-> out.left, right |-> out.right]
    /\ pc' = "done"
    /\ UNCHANGED <<op, before, params, hist, aliased>>

SpecMerge == InitMerge /\ [][Merge]_vars
\* left_records.merge_sequencial(right_records, left_stamp_key,
\* right_stamp_key, join_key, how)
MergeSequencial ==
    /\ pc = "call"
    /\ op = "merge_sequencial"
    /\ \E out \in {RecordsMergeSequencial(inputs.left, inputs.right,
                       params.left_stamp_key, params.right_stamp_key,
                       params.join_key, params.how)} :
          /\ result' = out.result
          /\ inputs' = [left |-> out.left, right |-> out.right]
    /\ pc' = "done"
    /\ UNCHANGED <<op, before, params, hist, aliased>>

SpecSeq == InitSeq /\ [][MergeSequencial]_vars

\* source_records.merge_sequencial_for_addr_track(...)
MergeSequencialForAddrTrack ==
    /\ pc = "call"
    /\ op = "merge_sequencial_for_addr_track"
    /\ \E out \in {RecordsMergeSequencialForAddrTrack(
                       inputs.source, inputs.copy, inputs.sink, params)} :
          /\ result' = out.result
          /\ inputs' = [source |-> out.source, copy |-> out.copy, sink |-> out.sink]
          /\ hist' = out.log
    /\ pc' = "done"
    /\ UNCHANGED <<op, before, params, aliased>>

SpecAddr == InitAddr /\ [][MergeSequencialForAddrTrack]_vars

(***************************************************************************)
(* A caller that builds a Records and calls its mutators one after the     *)
(* other.  pc counts the calls; result is the Records the last call        *)
(* without inplace returned.                                               *)
(***************************************************************************)
RecordsRows == {[a |-> 1], [a |-> 2, b |-> 1], [b |-> 2]}

OtherRows == {[a |-> 1, b |-> 2], [c |-> 1]}

ColumnLists == {{"a"}, {"b"}, {"a", "c"}}

RenameDicts == {<< <<"a", "c">> >>, << <<"b", "a">> >>}

Filters == [column : {"a"}, value : {1, 3}]

InitRecords ==
    /\ op = "__init__"
    /\ pc = 0
    /\ \E dicts \in SeqsUpTo(RecordsRows, MaxRows) :
          inputs = [self |-> MkRecords(dicts, "self")]
    /\ before = inputs
    /\ params = EmptyDict
    /\ result = NoResult
    /\ hist = <<>>
    /\ aliased = FALSE

\* what a call leaves: the receiver, and the Records returned; the Records
\* returned before stays with the caller, and when its _columns is the set
\* of the receiver it holds what the receiver holds
Returns(name, ps, out) ==
    /\ op' = name
    /\ params' = ps
    /\ before' = inputs
    /\ inputs' = [self |-> out.self]
    /\ result' = IF out.returned THEN out.result
                 ELSE IF aliased THEN [result EXCEPT !.columns = out.self.columns]
                 ELSE result
    /\ aliased' = IF out.returned THEN out.shares ELSE aliased
    /\ pc' = pc + 1
    /\ UNCHANGED hist

\* a call that returns None
InPlace(rs) == [self |-> rs, returned |-> FALSE, result |-> NoResult, shares |-> FALSE]

\* a call that returns a new Records and leaves the receiver alone
Returned(rs, new) == [self |-> rs, returned |-> TRUE, result |-> new, shares |-> FALSE]

\* every row of rs holds column key
AllHave(rs, key) == \A i \in 1..Len(rs.data) : key \in rs.data[i].columns

\* records.append(other)
AppendCall ==
    /\ pc < MaxCalls
    /\ Len(inputs.self.data) < MaxRows
    /\ \E d \in OtherRows :
          Returns("append", [other |-> d],
                  InPlace(RecordsAppend(inputs.self, Record(d, {<<"other", 1>>}))))

\* records.concat(other, inplace)
ConcatCall ==
    /\ pc < MaxCalls
    /\ Len(inputs.self.data) < MaxRows
    /\ \E d \in OtherRows, inplace \in BOOLEAN :
          Returns("concat", [other |-> <<d>>, inplace |-> inplace],
                  IF inplace
                  THEN InPlace(RecordsConcatInplace(inputs.self, MkRecords(<<d>>, "other")))
                  ELSE Returned(inputs.self,
                                RecordsConcat(inputs.self, MkRecords(<<d>>, "other"))))

\* records.sort(key, sub_key, inplace, ascending), on rows that hold the keys
SortCall ==
    /\ pc < MaxCalls
    /\ \E key \in {"a"}, sub_key \in {None, "b"}, inplace \in BOOLEAN, ascending \in BOOLEAN :
           /\ AllHave(inputs.self, key)
           /\ sub_key # None => AllHave(inputs.self, sub_key)
           /\ Returns("sort",
                      [key |-> key, sub_key |-> sub_key, inplace |-> inplace,
                       ascending |-> ascending],
                      RecordsSort(inputs.self, key, sub_key, inplace, ascending))

\* records.filter_if(f, inplace)
FilterIfCall ==
    /\ pc < MaxCalls
    /\ \E f \in Filters, inplace \in BOOLEAN :
           Returns("filter_if", [f |-> f, inplace |-> inplace],
                   RecordsFilterIf(inputs.self, f, inplace))

\* records.drop_columns(columns, inplace)
DropColumnsCall ==
    /\ pc < MaxCalls
    /\ \E columns \in ColumnLists, inplace \in BOOLEAN :
           Returns("drop_columns", [columns |-> columns, inplace |-> inplace],
                   IF inplace
                   THEN InPlace(RecordsDropColumns(inputs.self, columns))
                   ELSE Returned(inputs.self, RecordsDropColumnsCopy(inputs.self, columns)))

\* records.rename_columns(columns, inplace)
RenameColumnsCall ==
    /\ pc < MaxCalls
    /\ \E columns \in RenameDicts, inplace \in BOOLEAN :
           Returns("rename_columns", [columns |-> columns, inplace |-> inplace],
                   RecordsRenameColumns(inputs.self, columns, inplace))

\* records.bind_drop_as_delay(sort_key), on rows that hold the key
BindDropAsDelayCall ==
    /\ pc < MaxCalls
    /\ \E sort_key \in {"a"} :
           /\ AllHave(inputs.self, sort_key)
           /\ Returns("bind_drop_as_delay", [sort_key |-> sort_key],
                      InPlace(RecordsBindDropAsDelay(inputs.self, sort_key)))

NextRecords ==
    \/ AppendCall
    \/ ConcatCall
    \/ SortCall
    \/ FilterIfCall
    \/ DropColumnsCall
    \/ RenameColumnsCall
    \/ BindDropAsDelayCall

SpecRecords == InitRecords /\ [][NextRecords]_vars

\* the three merges
Init == InitMerge \/ InitSeq \/ InitAddr

Next == Merge \/ MergeSequencial \/ MergeSequencialForAddrTrack

Spec == Init /\ [][Next]_vars



(***************************************************************************)
(* What the claims speak of.                                               *)
(***************************************************************************)
Done(o) == pc = "done" /\ op = o

\* the rows of the result built from two input rows, in order
IsPair(r) == Cardinality(r.org) = 2

PairRows(rs) == SelectSeq(rs.data, IsPair)

\* how many rows of the result were built from exactly the input rows org
CountOrg(org) == Cardinality({i \in 1..Len(result.data) : result.data[i].org = org})

\* how many merged rows of the result the input row tag is part of
CountPairsOf(tag) ==
    Cardinality({i \in 1..Len(result.data) :
                    IsPair(result.data[i]) /\ tag \in result.data[i].org})

\* input row tag is emitted alone, unchanged, once exactly when kept is true,
\* and not at all otherwise
AloneIff(tag, row, kept) ==
    /\ CountOrg({tag}) = IF kept THEN 1 ELSE 0
    /\ \A i \in 1..Len(result.data) :
          result.data[i].org = {tag} => result.data[i].data = row.data

\* left row i and right row j of the inputs of merge hold the join key, with
\* the same value, and no later left row holds that value
LastLeftWithKeyOf(i, j) ==
    LET L == before.left.data
        R == before.right.data
        k == params.join_key
    IN /\ k \in L[i].columns
       /\ k \in R[j].columns
       /\ L[i].data[k] = R[j].data[k]
       /\ \A i2 \in (i + 1)..Len(L) :
             k \in L[i2].columns => L[i2].data[k] # L[i].data[k]

(***************************************************************************)
(* C1: Records.merge(right, join_key, how): the merged pairs are the same  *)
(* for every how (they are those of 'inner') and join rows of equal        *)
(* join_key; a left row in no pair, and so a left row lacking join_key,    *)
(* is in the result, alone and once, iff how is 'left' or 'outer'; a right *)
(* row in no pair, and so one lacking join_key, iff how is 'right' or      *)
(* 'outer'; a paired row is never emitted alone; with 'inner' the result   *)
(* holds pairs only; a row lacking join_key is in no pair.                 *)
(***************************************************************************)
C1_MergeHow ==
    Done("merge") =>
        LET L == before.left.data
            R == before.right.data
            k == params.join_key
            how == params.how
        IN /\ PairRows(result) =
                  RecordsMerge(before.left, before.right, k, "inner").result.data
           /\ \A i \in 1..Len(L) :
                 /\ k \notin L[i].columns => CountPairsOf(<<"L", i>>) = 0
                 /\ AloneIff(<<"L", i>>, L[i],
                             CountPairsOf(<<"L", i>>) = 0 /\ how \in {"left", "outer"})
           /\ \A j \in 1..Len(R) :
                 /\ k \notin R[j].columns => CountPairsOf(<<"R", j>>) = 0
                 /\ AloneIff(<<"R", j>>, R[j],
                             CountPairsOf(<<"R", j>>) = 0 /\ how \in {"right", "outer"})
           /\ \A n \in 1..Len(result.data) :
                 LET o == result.data[n].org
                 IN /\ how = "inner" => IsPair(result.data[n])
                    /\ \/ \E i \in 1..Len(L) : o = {<<"L", i>>}
                       \/ \E j \in 1..Len(R) : o = {<<"R", j>>}
                       \/ \E i \in 1..Len(L), j \in 1..Len(R) :
                             /\ o = {<<"L", i>>, <<"R", j>>}
                             /\ k \in L[i].columns /\ k \in R[j].columns
                             /\ L[i].data[k] = R[j].data[k]
                             /\ result.data[n].data[k] = L[i].data[k]

\* a 'left' merge with a pair, a left row without join key, a left row with
\* an unmatched key and a right row in no pair
C1_Witness ==
    /\ Done("merge")
    /\ params.how = "left"
    /\ \E n \in 1..Len(result.data) : IsPair(result.data[n])
    /\ \E i \in 1..Len(before.left.data) :
          /\ "k" \notin before.left.data[i].columns
          /\ CountOrg({<<"L", i>>}) = 1
    /\ \E j \in 1..Len(before.right.data) :
          /\ "k" \in before.right.data[j].columns
          /\ CountPairsOf(<<"R", j>>) = 0
          /\ CountOrg({<<"R", j>>}) = 0

(***************************************************************************)
(* C2, as claimed: in Records.merge a left row that has join_key is part   *)
(* of at most one merged row, the other right rows of its join_key value   *)
(* being unmatched.                                                        *)
(***************************************************************************)
C2_LeftPairedAtMostOnce ==
    Done("merge") =>
        \A i \in 1..Len(before.left.data) : CountPairsOf(<<"L", i>>) <= 1

(***************************************************************************)
(* C2, amended: in Records.merge a right row is part of at most one merged *)
(* row, and left row i is merged with right row j, in exactly one row of   *)
(* the result, iff both hold join_key with the same value and no later     *)
(* left row holds that value: every right row of that value is merged with *)
(* the last left row of that value, and none of them is unmatched.         *)
(***************************************************************************)
C2_EveryRightPairsWithLastLeft ==
    Done("merge") =>
        /\ \A j \in 1..Len(before.right.data) : CountPairsOf(<<"R", j>>) <= 1
        /\ \A i \in 1..Len(before.left.data), j \in 1..Len(before.right.data) :
              CountOrg({<<"L", i>>, <<"R", j>>}) =
                  IF LastLeftWithKeyOf(i, j) THEN 1 ELSE 0

\* one left row merged with two right rows of its join_key value
C2_Witness ==
    /\ Done("merge")
    /\ \E i \in 1..Len(before.left.data) : CountPairsOf(<<"L", i>>) = 2

SeqTags ==
    {<<"L", i>> : i \in 1..Len(before.left.data)}
        \cup {<<"R", j>> : j \in 1..Len(before.right.data)}

SeqRow(tag) ==
    IF tag[1] = "L" THEN before.left.data[tag[2]] ELSE before.right.data[tag[2]]

SeqStampKey(tag) ==
    IF tag[1] = "L" THEN params.left_stamp_key ELSE params.right_stamp_key

SeqHasStamp(tag) == SeqStampKey(tag) \in SeqRow(tag).columns

SeqStampOf(tag) == SeqRow(tag).data[SeqStampKey(tag)]

SeqPrecedes(x, y) ==
    \/ SeqStampOf(x) < SeqStampOf(y)
    \/ /\ SeqStampOf(x) = SeqStampOf(y)
       /\ \/ x[1] = "L" /\ y[1] = "R"
          \/ x[1] = y[1] /\ x[2] < y[2]

\* left row i and right row j satisfy the join condition
SeqJoins(i, j) ==
    \/ params.join_key = None
    \/ /\ params.join_key \in before.left.data[i].columns
       /\ params.join_key \in before.right.data[j].columns
       /\ before.left.data[i].data[params.join_key]
              = before.right.data[j].data[params.join_key]

\* right row j holds its stamp and follows left row i in the stamp order
SeqFollows(i, j) ==
    /\ SeqHasStamp(<<"L", i>>)
    /\ SeqHasStamp(<<"R", j>>)
    /\ SeqPrecedes(<<"L", i>>, <<"R", j>>)

\* right row j is the row right after left row i among the stamped rows
SeqAdjacent(i, j) ==
    /\ SeqFollows(i, j)
    /\ ~\E z \in SeqTags :
          /\ SeqHasStamp(z)
          /\ SeqPrecedes(<<"L", i>>, z)
          /\ SeqPrecedes(z, <<"R", j>>)

(***************************************************************************)
(* C4: every row of the result of Records.merge_sequencial is built from   *)
(* one left row, one right row, or one left row L and one right row R;     *)
(* in the last case R's right stamp is at least L's left stamp, L and R    *)
(* hold equal join_key values when join_key is given, no right row that    *)
(* follows L and satisfies the join condition precedes R in stamp order,   *)
(* and the row holds the columns of both.  No right row is part of two     *)
(* merged rows.                                                            *)
(***************************************************************************)
C4_SeqPairsNextRight ==
    Done("merge_sequencial") =>
        LET L == before.left.data
            R == before.right.data
        IN /\ \A n \in 1..Len(result.data) :
                 LET o == result.data[n].org
                 IN \/ \E i \in 1..Len(L) : o = {<<"L", i>>}
                    \/ \E j \in 1..Len(R) : o = {<<"R", j>>}
                    \/ \E i \in 1..Len(L), j \in 1..Len(R) :
                          /\ o = {<<"L", i>>, <<"R", j>>}
                          /\ SeqFollows(i, j)
                          /\ R[j].data[params.right_stamp_key]
                                >= L[i].data[params.left_stamp_key]
                          /\ SeqJoins(i, j)
                          /\ \A j2 \in 1..Len(R) :
                                (j2 # j /\ SeqFollows(i, j2) /\ SeqJoins(i, j2))
                                    => SeqPrecedes(<<"R", j>>, <<"R", j2>>)
                          /\ result.data[n].columns = L[i].columns \cup R[j].columns
                          /\ \A c \in R[j].columns :
                                result.data[n].data[c] = R[j].data[c]
                          /\ \A c \in L[i].columns \ R[j].columns :
                                result.data[n].data[c] = L[i].data[c]
           /\ \A j \in 1..Len(R) : CountPairsOf(<<"R", j>>) <= 1

\* with a join key, a left row merged with the second right row that follows
\* it, the first one holding another join_key value
C4_Witness ==
    /\ Done("merge_sequencial")
    /\ params.join_key = "k"
    /\ \E i \in 1..Len(before.left.data), j \in 1..Len(before.right.data),
          j2 \in 1..Len(before.right.data) :
          /\ CountOrg({<<"L", i>>, <<"R", j>>}) = 1
          /\ SeqFollows(i, j2)
          /\ SeqPrecedes(<<"R", j2>>, <<"R", j>>)

(***************************************************************************)
(* C5, as claimed: in Records.merge_sequencial with join_key = None, a     *)
(* left row that holds its stamp is merged with the first right row after  *)
(* it in stamp order that no other left row is merged with, whenever there *)
(* is such a right row.                                                    *)
(***************************************************************************)
C5_LeftTakesNextUnusedRight ==
    (Done("merge_sequencial") /\ params.join_key = None) =>
        \A i \in 1..Len(before.left.data) :
            LET unused == {j \in 1..Len(before.right.data) :
                              /\ SeqFollows(i, j)
                              /\ \A i2 \in 1..Len(before.left.data) :
                                    i2 # i => CountOrg({<<"L", i2>>, <<"R", j>>}) = 0}
            IN unused # {} =>
                  \E j \in unused :
                      /\ CountOrg({<<"L", i>>, <<"R", j>>}) = 1
                      /\ \A j2 \in unused :
                            j2 = j \/ SeqPrecedes(<<"R", j>>, <<"R", j2>>)

(***************************************************************************)
(* C5, amended: in Records.merge_sequencial with join_key = None, left row *)
(* i is merged with right row j, in exactly one row of the result, iff     *)
(* both hold their stamps and j is the row right after i among the rows    *)
(* that hold their stamps, in stamp order; a left row followed by another  *)
(* left row before the next right row is merged with nothing.              *)
(***************************************************************************)
C5_LeftTakesAdjacentRight ==
    (Done("merge_sequencial") /\ params.join_key = None) =>
        \A i \in 1..Len(before.left.data), j \in 1..Len(before.right.data) :
            CountOrg({<<"L", i>>, <<"R", j>>}) = IF SeqAdjacent(i, j) THEN 1 ELSE 0

\* join_key = None: a left row merged with nothing although a right row that
\* is merged with nothing follows it
C5_Witness ==
    /\ Done("merge_sequencial")
    /\ params.join_key = None
    /\ \E i \in 1..Len(before.left.data), j \in 1..Len(before.right.data) :
          /\ SeqFollows(i, j)
          /\ CountPairsOf(<<"L", i>>) = 0
          /\ CountPairsOf(<<"R", j>>) = 0
    /\ \E n \in 1..Len(result.data) : IsPair(result.data[n])

(***************************************************************************)
(* merge_sequencial_for_addr_track: what the sweep did, from its history   *)
(***************************************************************************)
AddrDone == Done("merge_sequencial_for_addr_track")

AddrSourceTags == {<<"source", i>> : i \in 1..Len(before.source.data)}

AddrSinkTags == {<<"sink", i>> : i \in 1..Len(before.sink.data)}

\* the value of source row s under source_key, of sink row k under sink_from_key
AddrSourceKey(s) == before.source.data[s[2]].data[params.source_key]

AddrSinkFrom(k) == before.sink.data[k[2]].data[params.sink_from_key]

\* when source row s is swept, sink row k is in the processing list and its
\* alias set holds the source_key value of s
Hits(s, k) ==
    \E n \in 1..Len(hist) :
        /\ hist[n].row.org = {s}
        /\ \E m \in 1..Len(hist[n].before) :
              /\ hist[n].before[m].org = {k}
              /\ hist[n].row.data[params.source_key] \in hist[n].before[m].keys

\* C6: merge_sequencial_for_addr_track emits exactly one row for each
\* (source, sink) pair in which the source_key value of the source is in the
\* alias set of the sink when the source is swept, and no other row: a sink
\* no source hits and a source that hits no sink contribute nothing.
C6_OneRowPerHit ==
    AddrDone =>
        /\ \A s \in AddrSourceTags, k \in AddrSinkTags :
              CountOrg({s, k}) = IF Hits(s, k) THEN 1 ELSE 0
        /\ \A n \in 1..Len(result.data) :
              \E s \in AddrSourceTags, k \in AddrSinkTags :
                  result.data[n].org = {s, k}

\* a source hits a sink through a copy, while another sink is hit by no
\* source and another source hits no sink
C6_Witness ==
    /\ AddrDone
    /\ \E s \in AddrSourceTags, k \in AddrSinkTags :
          /\ Hits(s, k)
          /\ AddrSinkFrom(k) # AddrSourceKey(s)
    /\ \E k \in AddrSinkTags : \A s \in AddrSourceTags : ~Hits(s, k)
    /\ \E s \in AddrSourceTags : \A k \in AddrSinkTags : ~Hits(s, k)
    /\ Len(result.data) = 1

\* C7: after a COPY row that extended the alias set of a processing record,
\* every record of the processing list whose alias set shares an identifier
\* with the set of that record has an equal alias set.
C7_OverlappingAliasSetsEqual ==
    AddrDone =>
        \A n \in 1..Len(hist) :
            (hist[n].row.data["type"] = COPY /\ hist[n].extended # {}) =>
                \A a, b \in 1..Len(hist[n].after) :
                    ( /\ hist[n].after[a].org = hist[n].extended
                      /\ hist[n].after[a].keys \cap hist[n].after[b].keys # {} )
                        => hist[n].after[a].keys = hist[n].after[b].keys

(***************************************************************************)
(* The three merges: their inputs and their scratch columns                *)
(***************************************************************************)
\* the Records a call was given, as they are now
InputsNow == {inputs[x] : x \in DOMAIN inputs}

ScratchColumns ==
    {"side", "merge_stamp", "has_valid_join_key", "has_merge_stamp",
     "found_right_record", "sub_record", "type", "timestamp"}

\* rs holds a scratch column, in a row or in its declared columns
HasScratch(rs) ==
    \/ rs.columns \cap ScratchColumns # {}
    \/ \E i \in 1..Len(rs.data) :
          \/ DOMAIN rs.data[i].data \cap ScratchColumns # {}
          \/ rs.data[i].columns \cap ScratchColumns # {}

\* C8: after merge, merge_sequencial or merge_sequencial_for_addr_track
\* returns, every input Records has the rows, in the order, with the values
\* and the declared columns it had before the call.
C8_InputsUnchanged == pc = "done" => inputs = before

\* a merge_sequencial that paired rows of two inputs of two rows each
C8_Witness ==
    /\ Done("merge_sequencial")
    /\ Len(before.left.data) = 2
    /\ Len(before.right.data) = 2
    /\ \E n \in 1..Len(result.data) : IsPair(result.data[n])

\* C9: after any of the three merges returns, no scratch column is in a row
\* or in the declared columns of the result or of an input.
C9_NoScratchColumns ==
    pc = "done" => \A rs \in InputsNow \cup {result} : ~HasScratch(rs)

\* a merge_sequencial_for_addr_track that returned rows, each made of a
\* source row and a sink row that went through the sweep with its columns
C9_Witness ==
    /\ AddrDone
    /\ Len(result.data) >= 2
    /\ \A n \in 1..Len(result.data) : IsPair(result.data[n])
    /\ \E n \in 1..Len(hist) : hist[n].row.data["type"] = COPY

(***************************************************************************)
(* The mutators of Records                                                 *)
(***************************************************************************)
\* the Records the caller holds: the receiver and the last one returned
Held == {inputs.self, result}

\* C10: after any sequence of append, concat, sort, filter_if, drop_columns,
\* rename_columns and bind_drop_as_delay, with or without inplace, the
\* declared columns of a Records are the union of the columns of its rows.
\* The formula states the half the claim singles out: every column present
\* in some row is declared.
C10_RowColumnsDeclared ==
    \A rs \in Held : RowColumns(rs.data) \subseteq rs.columns

\* the last call was one of the mutators that take inplace, without inplace
NotInplace ==
    /\ op \in {"sort", "concat", "drop_columns", "rename_columns", "filter_if"}
    /\ ~params.inplace

\* C11: sort, concat, drop_columns, rename_columns and filter_if called with
\* inplace=False leave the receiver as it was: its rows, their order, their
\* values and its declared columns.
C11_ReceiverUnchanged == NotInplace => inputs = before

(***************************************************************************)
(* The free functions merge, merge_sequencial and                          *)
(* merge_sequencial_for_addr_track, called with any how, with Records of   *)
(* any concrete type, and with rows that may lack their key or stamp.      *)
(* pc ends as "done" or as the name of the error raised.                   *)
(***************************************************************************)
\* the concrete types of a Records argument; the first argument, whose
\* method the function calls, is a Records
Kinds == {"Records", "RecordsOther"}

\* the values of how the model calls with
HowArgs == HowValues \cup {"cross"}

\* assert type(left_records) == type(right_records)
SameTypes(types) == \A i, j \in DOMAIN types : types[i] = types[j]

\* a call that raised: nothing is returned, records is what the inputs hold
Raised(error, records) ==
    [raised |-> error, result |-> NoResult, inputs |-> records, log |-> <<>>]

\* a call that returned
Completed(new, records, log) ==
    [raised |-> None, result |-> new, inputs |-> records, log |-> log]

HowAssertFailsAnnotated(left_records, right_records) ==
    Raised("AssertionError", [left |-> AnnotateSide(left_records, LEFT),
                              right |-> AnnotateSide(right_records, RIGHT)])

\* assert how in ['inner', 'left', 'right', 'outer'] fails: it stands before
\* the rows of the inputs are annotated
HowAssertFails(left_records, right_records) ==
    Raised("AssertionError", [left |-> left_records, right |-> right_records])

\* Records.merge with its assertion
RecordsMergeAsserted(left_records, right_records, join_key, how) ==
    IF how \notin HowValues THEN HowAssertFails(left_records, right_records)
    ELSE LET out == RecordsMerge(left_records, right_records, join_key, how)
         IN Completed(out.result, [left |-> out.left, right |-> out.right], <<>>)

\* Records.merge_sequencial with its assertion
RecordsMergeSequencialAsserted(left_records, right_records, left_stamp_key, right_stamp_key, join_key, how) ==
    IF how \notin HowValues THEN HowAssertFails(left_records, right_records)
    ELSE LET out == RecordsMergeSequencial(left_records, right_records,
                        left_stamp_key, right_stamp_key, join_key, how)
         IN Completed(out.result, [left |-> out.left, right |-> out.right], <<>>)

\* record.get(key) raises KeyError for some row of rs
GetRaises(rs, key) == \E i \in 1..Len(rs.data) : key \notin DOMAIN rs.data[i].data

\* Records.merge_sequencial_for_addr_track on rows that hold their keys but
\* may lack their stamp: record.get(stamp_key) of the annotation raises, on
\* the deep copies
RecordsMergeSequencialForAddrTrackRaising(source_records, copy_records, sink_records, keys) ==
    IF \/ GetRaises(source_records, keys.source_stamp_key)
       \/ GetRaises(copy_records, keys.copy_stamp_key)
       \/ GetRaises(sink_records, keys.sink_stamp_key)
    THEN Raised("KeyError", [source |-> source_records, copy |-> copy_records,
                             sink |-> sink_records])
    ELSE LET out == RecordsMergeSequencialForAddrTrack(
                        source_records, copy_records, sink_records, keys)
         IN Completed(out.result,
                      [source |-> out.source, copy |-> out.copy, sink |-> out.sink],
                      out.log)

\* the free function merge
MergeFunctionOutcome(records, types, join_key, how) ==
    IF ~SameTypes(types) THEN Raised("AssertionError", records)
    ELSE RecordsMergeAsserted(records.left, records.right, join_key, how)

\* the free function merge_sequencial
MergeSequencialFunctionOutcome(records, types, left_stamp_key, right_stamp_key, join_key, how) ==
    IF ~SameTypes(types) THEN Raised("AssertionError", records)
    ELSE RecordsMergeSequencialAsserted(records.left, records.right,
             left_stamp_key, right_stamp_key, join_key, how)

\* the free function merge_sequencial_for_addr_track
MergeSequencialForAddrTrackFunctionOutcome(records, types, keys) ==
    IF ~SameTypes(types) THEN Raised("AssertionError", records)
    ELSE RecordsMergeSequencialForAddrTrackRaising(
             records.source, records.copy, records.sink, keys)

InitMergeFunction ==
    /\ op = "merge"
    /\ pc = "call"
    /\ \E l \in SeqsUpTo(MergeLeftRows, MaxFreeRows), r \in SeqsUpTo(MergeRightRows, MaxFreeRows) :
          inputs = [left |-> MkRecords(l, "L"), right |-> MkRecords(r, "R")]
    /\ before = inputs
    /\ params \in [join_key : {"k"}, how : HowArgs, types : {"Records"} \X Kinds]
    /\ result = NoResult
    /\ hist = <<>>
    /\ aliased = FALSE

InitSeqFunction ==
    /\ op = "merge_sequencial"
    /\ pc = "call"
    /\ \E l \in SeqsUpTo(SeqLeftRows, MaxFreeRows), r \in SeqsUpTo(SeqRightRows, MaxFreeRows) :
          inputs = [left |-> MkRecords(l, "L"), right |-> MkRecords(r, "R")]
    /\ before = inputs
    /\ params \in [left_stamp_key : {"ls"}, right_stamp_key : {"rs"},
                   join_key : {None, "k"}, how : HowArgs,
                   types : {"Records"} \X Kinds]
    /\ result = NoResult
    /\ hist = <<>>
    /\ aliased = FALSE

\* the rows of rows at the places of lacking lose the column stamp_key
WithoutStamp(rows, places, lacking, stamp_key) ==
    [i \in 1..Len(rows) |->
        IF places[i] \in lacking THEN DictDel(rows[i], {stamp_key}) ELSE rows[i]]

\* the places in the trace of the events of one type
PlacesOf(trace, type) ==
    LET es == EventsOf(trace, type) IN [i \in 1..Len(es) |-> es[i].stamp]

InitAddrFunction ==
    /\ op = "merge_sequencial_for_addr_track"
    /\ pc = "call"
    /\ \E trace \in SeqsUpTo(AddrEvents, MaxFreeEvents) :
          \E lacking \in SUBSET (1..Len(trace)) :
              inputs =
                  [source |-> MkRecords(WithoutStamp(SourceRows(trace),
                                 PlacesOf(trace, "source"), lacking, "ss"), "source"),
                   copy |-> MkRecords(WithoutStamp(CopyRows(trace),
                                 PlacesOf(trace, "copy"), lacking, "cs"), "copy"),
                   sink |-> MkRecords(WithoutStamp(SinkRows(trace),
                                 PlacesOf(trace, "sink"), lacking, "ks"), "sink")]
    /\ before = inputs
    /\ \E types \in {"Records"} \X Kinds \X Kinds :
          params = [k \in DOMAIN AddrKeys \cup {"types"} |->
                       IF k = "types" THEN types ELSE AddrKeys[k]]
    /\ result = NoResult
    /\ hist = <<>>
    /\ aliased = FALSE

\* what a call of a free function leaves
Leaves(out) ==
    /\ result' = out.result
    /\ inputs' = out.inputs
    /\ hist' = out.log
    /\ pc' = IF out.raised = None THEN "done" ELSE out.raised
    /\ UNCHANGED <<op, before, params, aliased>>

\* merge(left_records, right_records, join_key, how)
MergeFunction ==
    /\ pc = "call"
    /\ op = "merge"
    /\ \E out \in {MergeFunctionOutcome(inputs, params.types, params.join_key,
                                        params.how)} : Leaves(out)

\* merge_sequencial(left_records, right_records, ...)
MergeSequencialFunction ==
    /\ pc = "call"
    /\ op = "merge_sequencial"
    /\ \E out \in {MergeSequencialFunctionOutcome(inputs, params.types,
                       params.left_stamp_key, params.right_stamp_key,
                       params.join_key, params.how)} : Leaves(out)

\* merge_sequencial_for_addr_track(source_records, ...)
MergeSequencialForAddrTrackFunction ==
    /\ pc = "call"
    /\ op = "merge_sequencial_for_addr_track"
    /\ \E out \in {MergeSequencialForAddrTrackFunctionOutcome(
                       inputs, params.types, params)} : Leaves(out)

InitFunctions == InitMergeFunction \/ InitSeqFunction \/ InitAddrFunction

NextFunctions ==
    \/ MergeFunction
    \/ MergeSequencialFunction
    \/ MergeSequencialForAddrTrackFunction

SpecFunctions == InitFunctions /\ [][NextFunctions]_vars

\* the call was made with a how the methods do not know, or with Records of
\* differing concrete types
BadCall ==
    \/ ~SameTypes(params.types)
    \/ op \in {"merge", "merge_sequencial"} /\ params.how \notin HowValues

\* C12: merge and merge_sequencial with a how outside inner, left, right and
\* outer, and the three free functions with Records of differing types, fail
\* with an assertion failure, and after it the inputs are what they were and
\* hold no scratch column.
C12_BadCallAsserts ==
    (pc # "call" /\ BadCall) =>
        /\ pc = "AssertionError"
        /\ inputs = before
        /\ \A rs \in InputsNow : ~HasScratch(rs)

\* a merge_sequencial of two Records of one type, each with a row, has
\* failed on its how
C12_Witness ==
    /\ pc = "AssertionError"
    /\ op = "merge_sequencial"
    /\ SameTypes(params.types)
    /\ params.how \notin HowValues
    /\ \A rs \in InputsNow : Len(rs.data) = 1

\* some row of an input lacks its join key or its stamp, or an input is empty
ShapeCase ==
    \/ \E rs \in InputsNow : Len(rs.data) = 0
    \/ op = "merge" /\ \E rs \in InputsNow : GetRaises(rs, params.join_key)
    \/ /\ op = "merge_sequencial"
       /\ \/ GetRaises(before.left, params.left_stamp_key)
          \/ GetRaises(before.right, params.right_stamp_key)
          \/ params.join_key # None
                /\ \E rs \in InputsNow : GetRaises(rs, params.join_key)
    \/ /\ op = "merge_sequencial_for_addr_track"
       /\ \/ GetRaises(before.source, params.source_stamp_key)
          \/ GetRaises(before.copy, params.copy_stamp_key)
          \/ GetRaises(before.sink, params.sink_stamp_key)

\* C13: none of merge, merge_sequencial and merge_sequencial_for_addr_track
\* raises an error when rows lack the join key or their stamp column or when
\* an input is empty: a call that is not a bad call returns.
C13_ShapeTolerated ==
    (pc # "call" /\ ~BadCall /\ ShapeCase) => pc = "done"

(***************************************************************************)
(* Records.merge: its four variants on the same inputs                     *)
(***************************************************************************)
\* the rows Records.merge returns for the inputs of the call under how
MergeVariant(how) ==
    RecordsMerge(before.left, before.right, params.join_key, how).result.data

\* the input rows each row of rows is made of
OrgsOf(rows) == {rows[i].org : i \in 1..Len(rows)}

\* C14: the row counts of the four variants of Records.merge on the same
\* inputs satisfy |inner| <= |left| <= |outer| and |inner| <= |right| <=
\* |outer|, and the outer result is the union of the left and the right
\* result: |outer| = |left| + |right| - |inner|.
C14_VariantCounts ==
    (Done("merge") /\ params.how = "outer") =>
        LET inner == MergeVariant("inner")
            left == MergeVariant("left")
            right == MergeVariant("right")
            outer == result.data
        IN /\ Len(inner) <= Len(left)
           /\ Len(left) <= Len(outer)
           /\ Len(inner) <= Len(right)
           /\ Len(right) <= Len(outer)
           /\ Len(outer) = Len(left) + Len(right) - Len(inner)
           /\ OrgsOf(outer) = OrgsOf(left) \cup OrgsOf(right)
           /\ OrgsOf(inner) = OrgsOf(left) \cap OrgsOf(right)

\* an outer merge with a pair, a left row alone and a right row alone
C14_Witness ==
    /\ Done("merge")
    /\ params.how = "outer"
    /\ Len(MergeVariant("inner")) >= 1
    /\ Len(MergeVariant("left")) > Len(MergeVariant("inner"))
    /\ Len(MergeVariant("right")) > Len(MergeVariant("inner"))

(***************************************************************************)
(* Records.concat and Records.bind_drop_as_delay                           *)
(***************************************************************************)
\* the Records a concat yields: the receiver with inplace, else the result
Concatenated == IF params.inplace THEN inputs.self ELSE result

\* the Records given to the last concat
ConcatOther == MkRecords(params.other, "other")

\* C15: concat(other), with and without inplace, yields a Records whose rows
\* are the rows of self followed by the rows of other and whose declared
\* columns are the declared columns of self and of other together, the
\* declared columns no row holds included.
C15_ConcatUnion ==
    op = "concat" =>
        /\ Concatenated.data = before.self.data \o ConcatOther.data
        /\ Concatenated.columns = before.self.columns \cup ConcatOther.columns

\* the rows bind_drop_as_delay was called on, and their sort_key values
BoundRows == before.self.data

BoundKey(i) == BoundRows[i].data[params.sort_key]

\* row i is walked before row j: the walk goes down the sort_key values,
\* and through rows of one value in their order in the receiver
WalkBefore(i, j) == BoundKey(i) > BoundKey(j) \/ (BoundKey(i) = BoundKey(j) /\ i < j)

\* row i stands before row j once the rows are sorted again, ascending
FinalBefore(i, j) == BoundKey(i) < BoundKey(j) \/ (BoundKey(i) = BoundKey(j) /\ i < j)

FinalPlace(i) == 1 + Cardinality({j \in 1..Len(BoundRows) : FinalBefore(j, i)})

\* the row that had c and was walked last before row i, 0 when there is none
WalkDonor(i, c) ==
    LET donors == {j \in 1..Len(BoundRows) : WalkBefore(j, i) /\ c \in BoundRows[j].columns}
    IN IF donors = {} THEN 0
       ELSE CHOOSE j \in donors : \A j2 \in donors : j2 = j \/ WalkBefore(j2, j)

\* the nearest row that had c among the rows that follow row i in the
\* ascending order, 0 when there is none
FollowingDonor(i, c) ==
    LET donors == {j \in 1..Len(BoundRows) : FinalBefore(i, j) /\ c \in BoundRows[j].columns}
    IN IF donors = {} THEN 0
       ELSE CHOOSE j \in donors : \A j2 \in donors : j2 = j \/ FinalBefore(j, j2)

\* row i with each declared column it lacks taken from the row donor names
FilledFrom(i, donor) ==
    LET lacking == {c \in before.self.columns \ BoundRows[i].columns : donor[c] # 0}
    IN [c \in DOMAIN BoundRows[i].data \cup lacking |->
           IF c \in DOMAIN BoundRows[i].data THEN BoundRows[i].data[c]
           ELSE BoundRows[donor[c]].data[c]]

\* after bind_drop_as_delay the rows are in non-decreasing sort_key order
\* and as many as before
BoundInOrder ==
    /\ Len(inputs.self.data) = Len(BoundRows)
    /\ \A p, q \in 1..Len(inputs.self.data) :
          p < q => inputs.self.data[p].data[params.sort_key]
                       <= inputs.self.data[q].data[params.sort_key]

\* C16: after bind_drop_as_delay(sort_key) the rows are in non-decreasing
\* sort_key order, as many as before and with the values they had, and each
\* row that lacked a declared column c holds for c the value of the nearest
\* row following it in ascending sort_key order that had c; a row no such
\* row follows still lacks c.
C16_FilledFromFollowing ==
    op = "bind_drop_as_delay" =>
        /\ BoundInOrder
        /\ \A i \in 1..Len(BoundRows) :
              inputs.self.data[FinalPlace(i)].data =
                  FilledFrom(i, [c \in before.self.columns |-> FollowingDonor(i, c)])

\* C16, amended: the row that gives its value of c is the row that had c and
\* was walked last before the row that lacks c, the walk going down the
\* sort_key values and through rows of one value in their order in the
\* receiver; a row before which no row with c is walked still lacks c.
C16_FilledFromWalked ==
    op = "bind_drop_as_delay" =>
        /\ BoundInOrder
        /\ \A i \in 1..Len(BoundRows) :
              inputs.self.data[FinalPlace(i)].data =
                  FilledFrom(i, [c \in before.self.columns |-> WalkDonor(i, c)])

\* a row that lacked a declared column holds it after bind_drop_as_delay,
\* and the rows were not in ascending order before
C16_Witness ==
    /\ op = "bind_drop_as_delay"
    /\ Len(BoundRows) = 2
    /\ BoundKey(1) > BoundKey(2)
    /\ \E c \in before.self.columns :
          c \notin BoundRows[2].columns /\ c \in inputs.self.data[1].columns


(***************************************************************************)
(* ResponseTime(records).to_all_records().  The class is not part of the   *)
(* sources at hand; its tests and its caller are.  The operator follows    *)
(* section 4.5 and scenarios S4-S7 of the specification: the rows are      *)
(* preprocessed as Records.bind_drop_as_delay does on the first column,    *)
(* rows still missing the first or the last column are skipped, and each   *)
(* cohort of rows sharing the first column keeps its minimum last column.  *)
(***************************************************************************)
MaxChainRows == 3

Min(a, b) == IF a <= b THEN a ELSE b

\* a cohort met for the first time, or met again
ResponseMapAllKeepFirst(cohorts, start, end, org) ==
    LET met == {k \in 1..Len(cohorts) : cohorts[k].start = start}
    IN IF met = {} THEN Append(cohorts, [start |-> start, end |-> end, org |-> org])
       ELSE LET k == CHOOSE k \in met : TRUE
            IN [cohorts EXCEPT ![k].org = @ \cup org]

\* one row added to the map of the cohorts: a first column met again keeps
\* the smaller last column
ResponseMapAll(cohorts, start, end, org) ==
    LET met == {k \in 1..Len(cohorts) : cohorts[k].start = start}
    IN IF met = {} THEN Append(cohorts, [start |-> start, end |-> end, org |-> org])
       ELSE LET k == CHOOSE k \in met : TRUE
            IN [cohorts EXCEPT ![k].end = Min(@, end), ![k].org = @ \cup org]

RECURSIVE ResponseMapWalk(_, _, _, _, _)
\* the rows from the i-th on, rows missing either column skipped
ResponseMapWalk(data, i, cohorts, input_column, output_column) ==
    IF i > Len(data) THEN cohorts
    ELSE LET record == data[i]
         IN IF ~({input_column, output_column} \subseteq record.columns)
            THEN ResponseMapWalk(data, i + 1, cohorts, input_column, output_column)
            ELSE ResponseMapWalk(data, i + 1,
                                 ResponseMapAll(cohorts, record.data[input_column],
                                                record.data[output_column], record.org),
                                 input_column, output_column)

\* ResponseTime(records).to_all_records()
ToAllRecords(rs, input_column, output_column) ==
    LET bound == RecordsBindDropAsDelay(rs, input_column)
        cohorts == ResponseMapWalk(bound.data, 1, <<>>, input_column, output_column)
    IN Records([k \in 1..Len(cohorts) |->
                  Record([c \in {input_column, "response_time"} |->
                            IF c = input_column THEN cohorts[k].start
                            ELSE cohorts[k].end - cohorts[k].start],
                         cohorts[k].org)])

\* the cases of TestResponseTimeAll: the rows appended and the rows expected
TestResponseTimeAll ==
    { [rows |-> <<>>, expect |-> <<>>],
      [rows |-> << [start |-> 0, end |-> 2], [start |-> 3, end |-> 4],
                   [start |-> 11, end |-> 12] >>,
       expect |-> << [start |-> 0, response_time |-> 2],
                     [start |-> 3, response_time |-> 1],
                     [start |-> 11, response_time |-> 1] >>],
      [rows |-> << [start |-> 0, middle |-> 1, end |-> 2],
                   [start |-> 3, middle |-> 4, end |-> 6],
                   [start |-> 11, middle |-> 13, end |-> 16] >>,
       expect |-> << [start |-> 0, response_time |-> 2],
                     [start |-> 3, response_time |-> 3],
                     [start |-> 11, response_time |-> 5] >>],
      [rows |-> << [start |-> 0, middle |-> 4, end |-> 5],
                   [start |-> 0, middle |-> 4, end |-> 6],
                   [start |-> 0, middle |-> 12, end |-> 13] >>,
       expect |-> << [start |-> 0, response_time |-> 5] >>],
      [rows |-> << [start |-> 0, middle |-> 4, end |-> 13],
                   [start |-> 1, middle |-> 4, end |-> 13],
                   [start |-> 5, middle |-> 12, end |-> 13] >>,
       expect |-> << [start |-> 0, response_time |-> 13],
                     [start |-> 1, response_time |-> 12],
                     [start |-> 5, response_time |-> 8] >>],
      [rows |-> << [start |-> 0, middle |-> 4, end |-> 13],
                   [start |-> 1, middle |-> 4],
                   [start |-> 5, middle |-> 12, end |-> 13] >>,
       expect |-> << [start |-> 0, response_time |-> 13],
                     [start |-> 1, response_time |-> 12],
                     [start |-> 5, response_time |-> 8] >>] }

\* the rows of a chain: the first column always, the last column or not
ChainRows ==
    [{"start"} -> 0..2] \cup
    {[c \in {"start", "end"} |-> IF c = "start" THEN s ELSE e] : s \in 0..2, e \in 3..4}

\* create_records of the tests: the columns are declared, then the rows
\* appended
CreateRecords(rows) ==
    LET appended == MkRecords(rows, "self")
    IN [appended EXCEPT !.columns = @ \cup {"start", "end"}]

InitResponseTime ==
    /\ op = "ResponseTime"
    /\ pc = 0
    /\ \E rows \in SeqsUpTo(ChainRows, MaxChainRows)
                      \cup {t.rows : t \in TestResponseTimeAll} :
          inputs = [self |-> CreateRecords(rows)]
    /\ before = inputs
    /\ params = EmptyDict
    /\ result = NoResult
    /\ hist = <<>>
    /\ aliased = FALSE

ToAllRecordsCall ==
    /\ pc = 0
    /\ \E out \in {ToAllRecords(inputs.self, "start", "end")} :
          /\ op' = "to_all_records"
          /\ params' = [input_column |-> "start", output_column |-> "end"]
          /\ before' = inputs
          /\ result' = out
          /\ pc' = 1
          /\ UNCHANGED <<inputs, hist, aliased>>

NextResponseTime == ToAllRecordsCall

SpecResponseTime == InitResponseTime /\ [][NextResponseTime]_vars

ChainData == inputs.self.data

ChainStart(i) == ChainData[i].data["start"]

ChainHasEnd(i) == "end" \in ChainData[i].columns

ChainEnd(i) == ChainData[i].data["end"]

MinOf(S) == CHOOSE x \in S : \A y \in S : x <= y

Cohort(start) == {i \in 1..Len(ChainData) : ChainStart(i) = start}

\* the rows of the result, as the dicts the tests compare
AllRecordsRows == [k \in 1..Len(result.data) |-> result.data[k].data]

\* the result is one row per start of the set, in ascending order, with the
\* response time the map gives
AllRecordsAre(starts, response_time) ==
    /\ {AllRecordsRows[k].start : k \in 1..Len(AllRecordsRows)} = starts
    /\ \A k, l \in 1..Len(AllRecordsRows) :
           k < l => AllRecordsRows[k].start < AllRecordsRows[l].start
    /\ \A k \in 1..Len(AllRecordsRows) :
           /\ DOMAIN AllRecordsRows[k] = {"start", "response_time"}
           /\ AllRecordsRows[k].response_time = response_time[AllRecordsRows[k].start]

\* the rows with the nearest larger start among those that have the last
\* column
NearestLarger(i) ==
    {j \in 1..Len(ChainData) :
        /\ ChainHasEnd(j)
        /\ ChainStart(j) > ChainStart(i)
        /\ \A k \in 1..Len(ChainData) :
               ChainHasEnd(k) /\ ChainStart(k) > ChainStart(i)
                   => ChainStart(j) <= ChainStart(k)}

\* the minimum last column of a cohort, its rows lacking the column taking
\* that of the row d
CohortMin(start, d) ==
    MinOf({ChainEnd(i) : i \in {j \in Cohort(start) : ChainHasEnd(j)}}
          \cup {ChainEnd(j) : j \in d})

ChainWalkBefore(j, i) ==
    \/ ChainStart(j) > ChainStart(i)
    \/ ChainStart(j) = ChainStart(i) /\ j < i

\* the row that has the last column and is walked last before row i
ChainWalkDonor(i) ==
    {j \in 1..Len(ChainData) :
        /\ ChainHasEnd(j)
        /\ ChainWalkBefore(j, i)
        /\ \A k \in 1..Len(ChainData) :
               ChainHasEnd(k) /\ ChainWalkBefore(k, i) /\ k # j
                   => ChainWalkBefore(k, j)}

\* the rows that have the last column, or take it from the row walked before
ChainCounted == {i \in 1..Len(ChainData) : ChainHasEnd(i) \/ ChainWalkDonor(i) # {}}

ToAllRecordsPassesTests ==
    op = "to_all_records" =>
        \A t \in TestResponseTimeAll :
            [i \in 1..Len(ChainData) |-> ChainData[i].data] = t.rows
                => AllRecordsRows = t.expect

(***************************************************************************)
(* C18: in Records.merge_sequencial, when two left rows that hold their    *)
(* stamps and the same join value (any two such left rows when join_key is *)
(* None) occur in stamp order with no stamped right row of that join value *)
(* between them, the earlier left row is part of no merged row: it is in   *)
(* the result alone, once and as it was, when how is 'left' or 'outer',    *)
(* and not in the result otherwise, whatever right rows follow.            *)
(***************************************************************************)
\* left rows i1 and i2 claim the same entry of
\* left_records_with_empty_sub_record
SeqSameJoinValue(i1, i2) ==
    \/ params.join_key = None
    \/ /\ params.join_key \in before.left.data[i1].columns
       /\ params.join_key \in before.left.data[i2].columns
       /\ before.left.data[i1].data[params.join_key]
              = before.left.data[i2].data[params.join_key]

\* left row i2 follows left row i1 with the same join value, and no right
\* row of that join value is between them
SeqSuperseded(i1, i2) ==
    /\ i1 # i2
    /\ SeqHasStamp(<<"L", i1>>)
    /\ SeqHasStamp(<<"L", i2>>)
    /\ SeqPrecedes(<<"L", i1>>, <<"L", i2>>)
    /\ SeqSameJoinValue(i1, i2)
    /\ ~\E j \in 1..Len(before.right.data) :
          /\ SeqFollows(i1, j)
          /\ SeqJoins(i1, j)
          /\ SeqPrecedes(<<"R", j>>, <<"L", i2>>)

C18_SupersededLeftAlone ==
    Done("merge_sequencial") =>
        \A i1, i2 \in 1..Len(before.left.data) :
            SeqSuperseded(i1, i2) =>
                /\ CountPairsOf(<<"L", i1>>) = 0
                /\ AloneIff(<<"L", i1>>, before.left.data[i1],
                            params.how \in {"left", "outer"})

\* with a join key, a left row superseded by a later one that is merged with
\* a right row following both
C18_Witness ==
    /\ Done("merge_sequencial")
    /\ params.join_key = "k"
    /\ \E i1, i2 \in 1..Len(before.left.data), j \in 1..Len(before.right.data) :
          /\ SeqSuperseded(i1, i2)
          /\ SeqFollows(i2, j)
          /\ SeqJoins(i1, j)
          /\ CountOrg({<<"L", i2>>, <<"R", j>>}) = 1
          /\ CountOrg({<<"L", i1>>}) = 1

(***************************************************************************)
(* C19: the rows merge_sequencial_for_addr_track returns are in reverse    *)
(* time order: a row of a source with a larger source stamp is never after *)
(* a row of a source with a smaller one, and among the rows of one source  *)
(* a row of a sink with a larger sink stamp is never after a row of a sink *)
(* with a smaller one.                                                     *)
(***************************************************************************)
\* the source row and the sink row the n-th row of the result is built from
AddrSourceOf(n) == CHOOSE s \in AddrSourceTags : s \in result.data[n].org

AddrSinkOf(n) == CHOOSE k \in AddrSinkTags : k \in result.data[n].org

AddrSourceStamp(s) == before.source.data[s[2]].data[params.source_stamp_key]

AddrSinkStamp(k) == before.sink.data[k[2]].data[params.sink_stamp_key]

C19_ReverseTimeOrder ==
    AddrDone =>
        \A m, n \in 1..Len(result.data) :
            m < n =>
                /\ AddrSourceStamp(AddrSourceOf(m)) >= AddrSourceStamp(AddrSourceOf(n))
                /\ AddrSourceOf(m) = AddrSourceOf(n)
                       => AddrSinkStamp(AddrSinkOf(m)) >= AddrSinkStamp(AddrSinkOf(n))
                /\ result.data[m].data[params.source_stamp_key]
                       = AddrSourceStamp(AddrSourceOf(m))
                /\ result.data[m].data[params.sink_stamp_key]
                       = AddrSinkStamp(AddrSinkOf(m))

\* a source with two rows, of two sinks, and a row of another source
C19_Witness ==
    /\ AddrDone
    /\ \E l, m, n \in 1..Len(result.data) :
          /\ AddrSourceOf(l) = AddrSourceOf(m)
          /\ AddrSinkStamp(AddrSinkOf(l)) > AddrSinkStamp(AddrSinkOf(m))
          /\ AddrSourceOf(n) # AddrSourceOf(m)
          /\ AddrSourceStamp(AddrSourceOf(n)) # AddrSourceStamp(AddrSourceOf(m))

(***************************************************************************)
(* A caller of one Record: it is constructed from a dict, and then add,    *)
(* drop_columns, merge and change_dict_key are called on it.  The Record   *)
(* a call returns stays with the caller.  The history holds what the       *)
(* caller wrote: for each column the value last written to it.             *)
(***************************************************************************)
MaxRecordCalls == 3

RecordColumns == {"a", "b"}

\* the lists of columns to drop; a list may name a column twice
DropLists == {<<"a">>, <<"b", "a">>, <<"c">>, <<"a", "a">>}

\* the Records merged into the receiver
MergeOthers == {[a |-> 2], [b |-> 1, c |-> 2]}

RECURSIVE RecordDropWalk(_, _, _, _)
\* for column in columns: del data[column] unless the column is not in
\* self.columns; del raises KeyError when data does not hold the column
RecordDropWalk(data, declared, columns, i) ==
    IF i > Len(columns) THEN [data |-> data, raised |-> None]
    ELSE IF columns[i] \notin declared
    THEN RecordDropWalk(data, declared, columns, i + 1)
    ELSE IF columns[i] \notin DOMAIN data THEN [data |-> data, raised |-> "KeyError"]
    ELSE RecordDropWalk(DictDel(data, {columns[i]}), declared, columns, i + 1)

\* Record.drop_columns(columns, inplace): the receiver after the call, the
\* Record returned if one is, and the error raised if one is
RecordDropColumnsOutcome(r, columns, inplace) ==
    LET walk == RecordDropWalk(r.data, r.columns, columns, 1)
        named == {columns[i] : i \in 1..Len(columns)}
    IN IF inplace
       THEN [self |-> IF walk.raised # None THEN [r EXCEPT !.data = walk.data]
                      ELSE [r EXCEPT !.data = walk.data, !.columns = @ \ named],
             returned |-> FALSE, result |-> r, raised |-> walk.raised]
       ELSE [self |-> r, returned |-> walk.raised = None,
             result |-> Record(walk.data, r.org), raised |-> walk.raised]

\* Record.merge(other, inplace)
RecordMergeOutcome(r, other, inplace) ==
    IF inplace
    THEN [self |-> RecordMerge(r, other), returned |-> FALSE, result |-> r,
          raised |-> None]
    ELSE [self |-> r, returned |-> TRUE,
          result |-> Record(DictUpdate(r.data, other.data), r.org \cup other.org),
          raised |-> None]

\* a call that returns None and raises nothing
RecordMutated(r) == [self |-> r, returned |-> FALSE, result |-> r, raised |-> None]

InitRecord ==
    /\ op = "Record"
    /\ pc = 0
    /\ \E init \in DictsOver(RecordColumns, Vals) :
          /\ inputs = [self |-> Record(init, {<<"self", 1>>})]
          /\ hist = [self |-> init, result |-> EmptyDict]
    /\ before = inputs
    /\ params = EmptyDict
    /\ result = Record(EmptyDict, {})
    /\ aliased = FALSE

\* what a call on the Record leaves, and what the caller wrote by it
RecordReturns(name, ps, out, written) ==
    /\ op' = name
    /\ params' = [ps EXCEPT !.raised = out.raised]
    /\ before' = inputs
    /\ inputs' = [self |-> out.self]
    /\ result' = IF out.returned THEN out.result ELSE result
    /\ hist' = IF out.returned THEN [hist EXCEPT !.result = written]
               ELSE IF ps.inplace THEN [hist EXCEPT !.self = written]
               ELSE hist
    /\ pc' = pc + 1
    /\ UNCHANGED aliased

RecordAddCall ==
    /\ pc < MaxRecordCalls
    /\ \E key \in RecordColumns, stamp \in Vals :
          RecordReturns("add", [key |-> key, stamp |-> stamp, inplace |-> TRUE, raised |-> None],
                        RecordMutated(RecordAdd(inputs.self, key, stamp)),
                        DictSet(hist.self, key, stamp))

RecordDropColumnsCall ==
    /\ pc < MaxRecordCalls
    /\ \E columns \in DropLists, inplace \in BOOLEAN :
          RecordReturns("drop_columns",
                        [columns |-> columns, inplace |-> inplace, raised |-> None],
                        RecordDropColumnsOutcome(inputs.self, columns, inplace),
                        DictDel(hist.self, {columns[i] : i \in 1..Len(columns)}))

RecordMergeCall ==
    /\ pc < MaxRecordCalls
    /\ \E init \in MergeOthers, inplace \in BOOLEAN :
          RecordReturns("merge", [other |-> init, inplace |-> inplace, raised |-> None],
                        RecordMergeOutcome(inputs.self, Record(init, {<<"other", 1>>}), inplace),
                        DictUpdate(hist.self, init))

RecordChangeDictKeyCall ==
    /\ pc < MaxRecordCalls
    /\ \E old_key \in {"a", "c"}, new_key \in {"a", "b"} :
          RecordReturns("change_dict_key",
                        [old_key |-> old_key, new_key |-> new_key, inplace |-> TRUE,
                         raised |-> None],
                        RecordMutated(RecordChangeDictKey(inputs.self, old_key, new_key)),
                        IF old_key \in DOMAIN hist.self
                        THEN DictSet(DictDel(hist.self, {old_key}), new_key, hist.self[old_key])
                        ELSE hist.self)

NextRecord ==
    \/ RecordAddCall
    \/ RecordDropColumnsCall
    \/ RecordMergeCall
    \/ RecordChangeDictKeyCall

SpecRecord == InitRecord /\ [][NextRecord]_vars

\* the columns of the Record are the keys of its values, which are the
\* integers last written
RecordHolds(r, written) ==
    /\ r.columns = DOMAIN r.data
    /\ DOMAIN r.data = DOMAIN written
    /\ \A c \in DOMAIN r.data \cap DOMAIN written :
           r.data[c] # NoneValue /\ r.data[c] = written[c]

(***************************************************************************)
(* C20: after any sequence of Record operations (construction, add,        *)
(* drop_columns, change_dict_key, merge, inplace or not), the column set   *)
(* of the Record, and of a Record returned, equals the key set of its      *)
(* values, and every value is the integer last written for its column; a   *)
(* rename moves the value of the old column to the new name, and leaves a  *)
(* Record that lacks the old column as it was.                             *)
(***************************************************************************)
C20_ColumnsAreKeys ==
    op \in {"Record", "add", "drop_columns", "merge", "change_dict_key"} =>
        /\ RecordHolds(inputs.self, hist.self)
        /\ RecordHolds(result, hist.result)
        /\ op = "change_dict_key" =>
              IF params.old_key \in before.self.columns
              THEN /\ inputs.self.data[params.new_key]
                          = before.self.data[params.old_key]
                   /\ params.old_key # params.new_key
                          => params.old_key \notin inputs.self.columns
              ELSE inputs.self = before.self

(***************************************************************************)
(* A caller that keeps the Records filter_if(f, inplace=False) returned    *)
(* next to the receiver, and then mutates one or the other in place.       *)
(* filter_if gives the Records returned the very _columns set of the       *)
(* receiver, and append, drop_columns and rename_columns update that set   *)
(* in place, so both Records declare what either one is made to declare.   *)
(***************************************************************************)
\* the two Records the caller holds
Targets == {"self", "result"}

TargetOf(target) == IF target = "self" THEN inputs.self ELSE result

\* the Records that was not called: its rows stay, and its _columns is the
\* set of the one called when the two share it
Bystander(rs, called) == IF aliased THEN [rs EXCEPT !.columns = called.columns] ELSE rs

InitFilterIf ==
    /\ op = "__init__"
    /\ pc = 0
    /\ \E dicts \in SeqsUpTo(RecordsRows, MaxRows) :
          inputs = [self |-> MkRecords(dicts, "self")]
    /\ before = [self |-> inputs.self, result |-> NoResult]
    /\ params = EmptyDict
    /\ result = NoResult
    /\ hist = <<>>
    /\ aliased = FALSE

\* result = records.filter_if(f, inplace=False)
FilterIfCopy ==
    /\ pc = 0
    /\ \E f \in Filters :
          \E out \in {RecordsFilterIf(inputs.self, f, FALSE)} :
              /\ op' = "filter_if"
              /\ params' = [f |-> f, inplace |-> FALSE, target |-> "self"]
              /\ inputs' = [self |-> out.self]
              /\ result' = out.result
              /\ before' = [self |-> inputs.self, result |-> out.result]
              /\ aliased' = out.shares
              /\ pc' = 1
              /\ UNCHANGED hist

\* what an in-place call on one of the two Records leaves
Mutates(name, ps, target, called) ==
    /\ op' = name
    /\ params' = ps
    /\ before' = [self |-> inputs.self, result |-> result]
    /\ inputs' = [self |-> IF target = "self" THEN called
                           ELSE Bystander(inputs.self, called)]
    /\ result' = IF target = "result" THEN called ELSE Bystander(result, called)
    /\ pc' = pc + 1
    /\ UNCHANGED <<hist, aliased>>

\* target.append(other)
AppendTo ==
    /\ pc >= 1 /\ pc < MaxCalls
    /\ \E target \in Targets, d \in OtherRows :
          /\ Len(TargetOf(target).data) < MaxRows
          /\ Mutates("append", [other |-> d, target |-> target], target,
                     RecordsAppend(TargetOf(target), Record(d, {<<"other", pc>>})))

\* target.drop_columns(columns, inplace=True)
DropColumnsOf ==
    /\ pc >= 1 /\ pc < MaxCalls
    /\ \E target \in Targets, columns \in ColumnLists :
          Mutates("drop_columns", [columns |-> columns, inplace |-> TRUE, target |-> target],
                  target, RecordsDropColumns(TargetOf(target), columns))

\* target.rename_columns(columns, inplace=True)
RenameColumnsOf ==
    /\ pc >= 1 /\ pc < MaxCalls
    /\ \E target \in Targets, columns \in RenameDicts :
          Mutates("rename_columns", [columns |-> columns, inplace |-> TRUE, target |-> target],
                  target, RecordsRenameColumns(TargetOf(target), columns, TRUE).self)

NextFilterIf ==
    \/ FilterIfCopy
    \/ AppendTo
    \/ DropColumnsOf
    \/ RenameColumnsOf

SpecFilterIf == InitFilterIf /\ [][NextFilterIf]_vars

\* the last call was an in-place call on one of the two Records
Mutated == pc >= 2

(***************************************************************************)
(* C21: the Records returned by filter_if(f, inplace=False) is independent *)
(* of the receiver: an append, a drop_columns(inplace=True) or a           *)
(* rename_columns(inplace=True) on the Records returned changes neither    *)
(* the rows nor the declared columns of the receiver, and such a call on   *)
(* the receiver changes neither those of the Records returned.             *)
(***************************************************************************)
C21_FilterIfResultIndependent ==
    Mutated =>
        IF params.target = "result" THEN inputs.self = before.self
        ELSE result = before.result

\* the rows of the Records that was not called are what they were
C21_RowsIndependent ==
    Mutated =>
        IF params.target = "result" THEN inputs.self.data = before.self.data
        ELSE result.data = before.result.data

(***************************************************************************)
(* C22: in merge_sequencial_for_addr_track every sink row is part of at    *)
(* most one row of the result, and every row of the result is built from   *)
(* exactly one sink row and exactly one source row.  A sink merged with a  *)
(* source leaves the processing list at once, so no source swept later,    *)
(* which is an earlier one in time, is merged with it, whatever its        *)
(* source_key value.                                                       *)
(***************************************************************************)
\* the rows of the result sink row k is part of
AddrRowsOf(k) == {n \in 1..Len(result.data) : k \in result.data[n].org}

\* the sinks in the processing list, as a round of the sweep found or left it
AddrListed(list) == UNION {list[m].org : m \in 1..Len(list)}

C22_SinkPairedOnce ==
    AddrDone =>
        /\ \A k \in AddrSinkTags : Cardinality(AddrRowsOf(k)) <= 1
        /\ \A n \in 1..Len(result.data) :
              /\ Cardinality(result.data[n].org \cap AddrSinkTags) = 1
              /\ Cardinality(result.data[n].org \cap AddrSourceTags) = 1
              /\ result.data[n].org \subseteq AddrSinkTags \cup AddrSourceTags
        /\ \A s \in AddrSourceTags, k \in AddrSinkTags :
              CountOrg({s, k}) >= 1 =>
                  \A n \in 1..Len(hist) :
                      hist[n].row.org = {s} =>
                          /\ k \in AddrListed(hist[n].before)
                          /\ \A m \in n..Len(hist) : k \notin AddrListed(hist[m].after)

\* a sink merged with a source, and an earlier source with the same
\* source_key value that is merged with nothing
C22_Witness ==
    /\ AddrDone
    /\ \E s, s2 \in AddrSourceTags, k \in AddrSinkTags :
          /\ s # s2
          /\ AddrSourceKey(s) = AddrSourceKey(s2)
          /\ before.source.data[s2[2]].data[params.source_stamp_key]
                 < before.source.data[s[2]].data[params.source_stamp_key]
          /\ CountOrg({s, k}) = 1
          /\ \A n \in 1..Len(result.data) : s2 \notin result.data[n].org

(***************************************************************************)
(* C23: in Records.merge_sequencial no input row is part of two rows of    *)
(* the result, whatever how is.  With how = 'outer' every left row and     *)
(* every right row is part of exactly one row of the result, a merged pair *)
(* or the row alone, so the result has |left| + |right| - (number of       *)
(* merged pairs) rows.  With how = 'inner' the result is the merged pairs  *)
(* and nothing else: the same pairs, in the same order, as with 'outer'.   *)
(***************************************************************************)
\* the rows of the result input row tag is part of
SeqRowsOf(tag) == {n \in 1..Len(result.data) : tag \in result.data[n].org}

\* the call on the same inputs with another how
SeqVariant(how) ==
    RecordsMergeSequencial(before.left, before.right, params.left_stamp_key,
                           params.right_stamp_key, params.join_key, how).result

C23_EveryRowOnce ==
    Done("merge_sequencial") =>
        /\ \A tag \in SeqTags : Cardinality(SeqRowsOf(tag)) <= 1
        /\ \A n \in 1..Len(result.data) :
              /\ result.data[n].org \subseteq SeqTags
              /\ Cardinality(result.data[n].org) \in {1, 2}
        /\ params.how = "outer" =>
              /\ \A tag \in SeqTags : Cardinality(SeqRowsOf(tag)) = 1
              /\ Len(result.data) = Len(before.left.data) + Len(before.right.data)
                                        - Len(PairRows(result))
              /\ SeqVariant("inner").data = PairRows(result)
        /\ params.how = "inner" => PairRows(result) = result.data

\* how = 'outer': a merged pair, a left row alone and a right row alone
C23_Witness ==
    /\ Done("merge_sequencial")
    /\ params.how = "outer"
    /\ \E l, m, n \in 1..Len(result.data) :
          /\ IsPair(result.data[l])
          /\ \E i \in 1..Len(before.left.data) : result.data[m].org = {<<"L", i>>}
          /\ \E j \in 1..Len(before.right.data) : result.data[n].org = {<<"R", j>>}
=============================================================================
